---------------------------- MODULE Spec2Model ----------------------------
(***************************************************************************)
(* A model of the MinecraftSimpleProxy session pipeline                    *)
(* (src/server/tcpProxy.js), its protocol codec (src/utils/                *)
(* protocolUtils.js), the routing table (src/routes/domainRouting.js),     *)
(* the identity resolver (src/utils/mojangApiUtils.js) and the control     *)
(* plane (src/index.js).                                                   *)
(*                                                                         *)
(* Buffers and strings are sequences of byte / character codes.  JS        *)
(* offsets are 0-based; At(buf, i) reads buf[i] with a 0-based index.      *)
(***************************************************************************)
EXTENDS Integers, Sequences, FiniteSets, TLC

(***************************************************************************)
(* JavaScript values that are not strings.  A string is a sequence of     *)
(* character codes >= 0, so these two cannot be confused with one.         *)
(***************************************************************************)
Null == << 0 - 1 >>
Undefined == << 0 - 2 >>

\* JS truthiness of a string-or-null value: null, undefined and "" are falsy.
Truthy(v) == v # Null /\ v # Undefined /\ v # << >>

Min(a, b) == IF a < b THEN a ELSE b
Max(a, b) == IF a > b THEN a ELSE b

\* Integers of the model checker are 32 bits wide, as JS bitwise results are.
Pow2(n) == 2 ^ n

\* OrShifted, were the groups eight bits apart.
OrShiftedByEight(value, byte, bytesRead) ==
    value + (byte % 128) * Pow2(8 * Min(bytesRead, 3))

\* value | ((byte & 0x7F) << (7 * bytesRead)) as a signed 32-bit integer, for
\* a value that holds the lower 7 * bytesRead bits only.  The groups are
\* disjoint, so the or is a sum; of the fifth group only the low 4 bits stay
\* within 32 bits, and bit 31 is the sign.
OrShifted(value, byte, bytesRead) ==
    IF bytesRead < 4
    THEN value + (byte % 128) * Pow2(7 * bytesRead)
    ELSE LET low == byte % 16
             positive == value + (low % 8) * Pow2(28)
         IN  IF low >= 8 THEN (positive - Pow2(30)) - Pow2(30) ELSE positive

\* buffer[i] for a 0-based index; Buffer indexing out of range gives undefined.
InRange(buf, i) == i >= 0 /\ i < Len(buf)
At(buf, i) == buf[i + 1]

\* Buffer.prototype.slice(start, end): negative indexes count from the end,
\* both are clamped to the buffer.
ClampIndex(buf, i) == IF i < 0 THEN Max(Len(buf) + i, 0) ELSE Min(i, Len(buf))
Slice(buf, start, end) ==
    LET s == ClampIndex(buf, start)
        e == ClampIndex(buf, end)
    IN  IF e <= s THEN << >> ELSE SubSeq(buf, s + 1, e)
SliceFrom(buf, start) == Slice(buf, start, Len(buf))

\* Buffer.prototype.toString('utf8', start, end).  Bytes below 0x80 decode to
\* themselves; a byte that is not part of a well-formed multi-byte sequence
\* decodes to U+FFFD.  The inputs of this model use lone high bytes only.
Utf8Char(b) == IF b < 128 THEN b ELSE 65533
Utf8(bytes) == [i \in 1..Len(bytes) |-> Utf8Char(bytes[i])]
ToStringRange(buf, start, end) ==
    Utf8(Slice(buf, Max(start, 0), Max(end, 0)))

(***************************************************************************)
(* Protocol codec, src/utils/protocolUtils.js                              *)
(***************************************************************************)
Fail(msg) == [ok |-> FALSE, err |-> msg]

\* The loop of readVarInt, were the count of bytes read not tested.
RECURSIVE ReadVarIntLoopNoLimit(_, _, _, _)
ReadVarIntLoopNoLimit(buffer, offset, value, bytesRead) ==
    IF ~InRange(buffer, offset + bytesRead)
    THEN Fail("Buffer ended unexpectedly while reading VarInt")
    ELSE IF At(buffer, offset + bytesRead) < 128
         THEN [ok |-> TRUE,
               value |-> OrShifted(value, At(buffer, offset + bytesRead), bytesRead),
               bytesRead |-> bytesRead + 1]
         ELSE ReadVarIntLoopNoLimit(buffer, offset,
                  OrShifted(value, At(buffer, offset + bytesRead), bytesRead),
                  bytesRead + 1)

\* The loop of readVarInt.
RECURSIVE ReadVarIntLoop(_, _, _, _)
ReadVarIntLoop(buffer, offset, value, bytesRead) ==
    IF bytesRead >= 5 THEN Fail("VarInt is too big")
    ELSE IF ~InRange(buffer, offset + bytesRead)
         THEN Fail("Buffer ended unexpectedly while reading VarInt")
    ELSE LET byte == At(buffer, offset + bytesRead)
             v == OrShifted(value, byte, bytesRead)
         IN  IF byte < 128
             THEN [ok |-> TRUE, value |-> v, bytesRead |-> bytesRead + 1]
             ELSE ReadVarIntLoop(buffer, offset, v, bytesRead + 1)

readVarInt(buffer, offset) == ReadVarIntLoop(buffer, offset, 0, 0)

\* The body of readMinecraftString once the length VarInt is read.
StringOfLength(buffer, start, len) ==
    IF ~len.ok THEN len
    ELSE IF start + len.value > Len(buffer)
         THEN Fail("String length exceeds buffer size.")
         ELSE [ok |-> TRUE,
               value |-> ToStringRange(buffer, start, start + len.value),
               bytesRead |-> len.bytesRead + len.value]

StringAt(buffer, offset, len) ==
    StringOfLength(buffer, offset + (IF len.ok THEN len.bytesRead ELSE 0), len)

readMinecraftString(buffer, offset) ==
    StringAt(buffer, offset, readVarInt(buffer, offset))

\* "const { value, bytesRead } = readVarInt(data, offset); offset += bytesRead"
\* as a step on a cursor [ok, offset, value]; a throw leaves ok = FALSE.
Cursor(offset) == [ok |-> TRUE, offset |-> offset, value |-> 0]
Advance(cur, read) ==
    IF read.ok
    THEN [ok |-> TRUE, offset |-> cur.offset + read.bytesRead, value |-> read.value]
    ELSE [ok |-> FALSE, offset |-> cur.offset, value |-> 0]
ReadNext(data, cur) ==
    IF cur.ok THEN Advance(cur, readVarInt(data, cur.offset)) ELSE cur
\* "if (packetId !== 0x00) throw"
RequireId0(cur) ==
    IF cur.ok /\ cur.value # 0 THEN [cur EXCEPT !.ok = FALSE] ELSE cur

\* packetLength, then packetId
PacketHeader(data) == ReadNext(data, ReadNext(data, Cursor(0)))

\* IsModernId, were only the handshake id accepted.
IsModernIdHandshakeOnly(packetId) == packetId.ok /\ packetId.value = 0

IsModernId(packetId) == packetId.ok /\ packetId.value \in {0, 1}

isModernHandshakeOrPing(data) ==
    IF Len(data) < 1 THEN FALSE ELSE IsModernId(PacketHeader(data))

\* Character classes of the regular expressions of sanitizeDomain.
IsDigit(c) == c >= 48 /\ c <= 57
IsDomainChar(c) ==
    \/ c >= 97 /\ c <= 122
    \/ c >= 65 /\ c <= 90
    \/ IsDigit(c)
    \/ c = 45
    \/ c = 46

RECURSIVE StripTrailingDigits(_)
StripTrailingDigits(str) ==
    IF str # << >> /\ IsDigit(str[Len(str)])
    THEN StripTrailingDigits(SubSeq(str, 1, Len(str) - 1))
    ELSE str

\* .replace(/\.+$/, '')
RECURSIVE StripTrailingDots(_)
StripTrailingDots(str) ==
    IF str # << >> /\ str[Len(str)] = 46
    THEN StripTrailingDots(SubSeq(str, 1, Len(str) - 1))
    ELSE str

\* .replace(/FML\d*$/, ''): the match is the F, M, L that is followed by
\* digits only up to the end of the string.
StripFml(str) ==
    LET noDigits == StripTrailingDigits(str)
        n == Len(noDigits)
    IN  IF n >= 3 /\ SubSeq(noDigits, n - 2, n) = <<70, 77, 76>>
        THEN SubSeq(noDigits, 1, n - 3)
        ELSE str

\* After the first replace no whitespace is left, so trim() changes nothing.
sanitizeDomain(domain) ==
    StripTrailingDots(StripFml(SelectSeq(domain, IsDomainChar)))

\* The address of the handshake once its length is read: toString clamps
\* the range to the buffer.
HandshakeDomain(data, addressLength) ==
    IF ~addressLength.ok THEN Null
    ELSE sanitizeDomain(ToStringRange(data, addressLength.offset,
                                      addressLength.offset + addressLength.value))

\* packetLength, packetId (0x00), protocolVersion, addressLength, address
parseModernHandshake(data) ==
    HandshakeDomain(data, ReadNext(data, ReadNext(data, RequireId0(PacketHeader(data)))))

DomainAndRest(data, domain, packetLength) ==
    IF ~packetLength.ok
    THEN [domain |-> Null, dataWithoutHandshakePacket |-> Null]
    ELSE [domain |-> domain,
          dataWithoutHandshakePacket |->
              SliceFrom(data, packetLength.bytesRead + packetLength.value)]

getModernMinecraftDomain(data) ==
    DomainAndRest(data, parseModernHandshake(data), readVarInt(data, 0))

UsernameAfterHeader(data, packetId) ==
    IF ~packetId.ok THEN [ok |-> FALSE]
    ELSE readMinecraftString(data, packetId.offset)

UsernameOrNull(username) == IF username.ok THEN username.value ELSE Null

\* The username of the Login Start packet, null when the parse throws.
getModernMinecraftUsername(data) ==
    UsernameOrNull(UsernameAfterHeader(data, RequireId0(PacketHeader(data))))

MCIP == <<77, 67, 73, 80>>

\* data[4] is undefined for a 4-byte buffer; totalInjectedLength is then NaN,
\* "data.length < NaN" is false, slice(5, NaN) is empty and slice(NaN) is the
\* whole buffer.
InjectedOfLength(data, totalInjectedLength) ==
    IF Len(data) < totalInjectedLength
    THEN Fail("Packet length mismatch with injected data length.")
    ELSE [ok |-> TRUE,
          ip |-> ToStringRange(data, 5, totalInjectedLength),
          dataWithoutInjectedIp |-> SliceFrom(data, totalInjectedLength)]

\* extractInjectedIP, were the marker not compared.
extractInjectedIPAnyMarker(data) ==
    IF ~InRange(data, 4)
    THEN [ok |-> TRUE, ip |-> << >>, dataWithoutInjectedIp |-> data]
    ELSE InjectedOfLength(data, 4 + 1 + At(data, 4))

extractInjectedIP(data) ==
    IF ToStringRange(data, 0, 4) # MCIP
    THEN Fail("Invalid packet: Missing MCIP marker.")
    ELSE IF ~InRange(data, 4)
         THEN [ok |-> TRUE, ip |-> << >>, dataWithoutInjectedIp |-> data]
         ELSE InjectedOfLength(data, 4 + 1 + At(data, 4))

(***************************************************************************)
(* Bounds of the model.                                                    *)
(***************************************************************************)
\* Connections the listener accepts in one behaviour.
MaxSessions == 1
\* Chunks an upstream sends to one session.
MaxRemoteChunks == 2

(***************************************************************************)
(* What clients send.  The encoders follow the wire layout the codec       *)
(* decodes (all lengths here are below 128, one VarInt byte each).         *)
(***************************************************************************)
Alice == <<97, 108, 105, 99, 101>>
Bob == <<98, 111, 98>>
Ip1 == <<49, 46, 50, 46, 51, 46, 52>>
Ip2 == <<53, 46, 54, 46, 55, 46, 56>>
\* "a.co"
DomainA == <<97, 46, 99, 111>>
\* "b.co", a domain no route is ever set for
DomainB == <<98, 46, 99, 111>>
\* "A.co"
DomainUpper == <<65, 46, 99, 111>>
\* "valueOf", a property every JS object inherits
DomainValueOf == <<118, 97, 108, 117, 101, 79, 102>>

InjectedHeader(ip) == MCIP \o <<Len(ip)>> \o ip
Framed(body) == <<Len(body)>> \o body
\* id 0x00, protocol version 47, address, port 25565 big-endian, nextState
Handshake(addr, nextState) ==
    Framed(<<0, 47, Len(addr)>> \o addr \o <<99, 221, nextState>>)
LoginStart(name) == Framed(<<0, Len(name)>> \o name)
\* Status Request (id 0x00, empty) and Ping (id 0x01, 8-byte payload)
StatusRequest == Framed(<<0>>)
Ping == Framed(<<1, 0, 0, 0, 0, 0, 0, 0, 7>>)
Play1 == <<2, 16, 170>>
Play2 == <<2, 17, 187>>

\* A script is the sequence of chunks one client sends, in order.
ScriptLoginAlice ==
    << InjectedHeader(Ip1) \o Handshake(DomainA, 2) \o LoginStart(Alice), Play1, Play2 >>
ScriptStatus ==
    << InjectedHeader(Ip1) \o Handshake(DomainA, 1) \o StatusRequest, Ping >>
ScriptValueOf ==
    << InjectedHeader(Ip2) \o Handshake(DomainValueOf, 1) \o StatusRequest >>
ScriptUnrouted ==
    << InjectedHeader(Ip2) \o Handshake(DomainB, 2) \o LoginStart(Alice) >>
\* One-chunk logins
ScriptAliceShort ==
    << InjectedHeader(Ip1) \o Handshake(DomainA, 2) \o LoginStart(Alice) >>
ScriptBobShort ==
    << InjectedHeader(Ip2) \o Handshake(DomainA, 2) \o LoginStart(Bob) >>
\* No injected header
ScriptNoMarker == << Handshake(DomainA, 2) \o LoginStart(Alice) >>
\* A legacy server-list ping (FE 01 FA), and FE 01 followed by 00
ScriptLegacyPing == << InjectedHeader(Ip1) \o <<254, 1, 250>> >>
ScriptFE == << InjectedHeader(Ip1) \o <<254, 1, 0>> >>
\* A Ping packet (id 0x01) first
ScriptPingFirst == << InjectedHeader(Ip1) \o Ping >>
\* The handshake of "a.co.x", of which only the bytes up to "a.co" arrived
ScriptCutShort ==
    << InjectedHeader(Ip1) \o SubSeq(Handshake(DomainA \o <<46, 120>>, 2), 1, 8) >>
\* The handshake of "A.co"
ScriptUpperCase ==
    << InjectedHeader(Ip1) \o Handshake(DomainUpper, 2) \o LoginStart(Alice) >>
Scripts ==
    { ScriptLoginAlice, ScriptStatus, ScriptValueOf, ScriptUnrouted, ScriptNoMarker,
      ScriptLegacyPing, ScriptFE, ScriptPingFirst, ScriptCutShort, ScriptUpperCase }
ControlScripts == {ScriptAliceShort, ScriptBobShort}

\* The k-th chunk an upstream sends.
RemoteChunk(k) == <<3, k>>

(***************************************************************************)
(* What the external services answer.                                      *)
(***************************************************************************)
\* The UUID a provider returns for a username, dashed as the primary
\* provider returns it: "a-1" for alice, "b-2" for anyone else.
ProviderUuid(username) ==
    IF username = Alice THEN <<97, 45, 49>> ELSE <<98, 45, 50>>
StripDashes(uuid) == SelectSeq(uuid, LAMBDA c : c # 45)

Rule(type, value) == [type |-> type, value |-> value]
FirewallRuleSets ==
    { << >>,
      << Rule("ipBan", Ip1) >>,
      << Rule("usernameBan", Bob), Rule("usernameBan", Alice) >>,
      << Rule("uuidBan", StripDashes(ProviderUuid(Alice))) >>,
      << Rule("uuidBan", ProviderUuid(Alice)), Rule("ipBan", Alice) >> }

(***************************************************************************)
(* Routing table, src/routes/domainRouting.js.  A port is kept in the form *)
(* the request body gave it in: a JSON number or a JSON string.            *)
(***************************************************************************)
PortNumber(n) == [form |-> "number", n |-> n]
PortString(n) == [form |-> "string", n |-> n]
Target(host, port) == [host |-> host, port |-> port]
\* domainRouting["valueOf"] and the like: a function object inherited from
\* Object.prototype, truthy, whose host and port are undefined.
InheritedMember == Target("undefined", [form |-> "undefined", n |-> 0])
ObjectPrototypeKeys == {DomainValueOf}

NoTarget == Target("null", [form |-> "null", n |-> 0])

VARIABLES
    connectionId,       \* tcpProxy.js: let connectionId = 0
    activeConnections,  \* tcpProxy.js: the registry, id -> Connection
    domainRouting,      \* domainRouting.js: the table, domain -> target
    sess,               \* id -> the state of one handleClientConnection call
    response,           \* index.js: the last response of the control plane
    listening,          \* tcpProxy.js: the process runs and the server listens
    call,               \* the last call of a codec function, with its result
    routingFile,        \* domainRouting.js: the content of ROUTING_FILE
    netty               \* the Netty proxy: one client channel and its upstream

vars ==
    <<connectionId, activeConnections, domainRouting, sess, response, listening, call,
      routingFile, netty>>

Ids == DOMAIN sess

\* domainRouting[domain] || null
get(domain) ==
    IF domain \in DOMAIN domainRouting THEN domainRouting[domain]
    ELSE IF domain \in ObjectPrototypeKeys THEN InheritedMember
    ELSE NoTarget

(***************************************************************************)
(* Sockets.  A socket is "open", "ending" (end() was called on it: no      *)
(* more writes, reads continue until the peer closes) or "closed" (the     *)
(* peer sent FIN on a socket without allowHalfOpen, or it was destroyed    *)
(* by an error).  A message written to the client is a diagnostic text,    *)
(* possibly followed by a value, or a chunk of bytes.                      *)
(***************************************************************************)
Text(str) == [text |-> str, bytes |-> << >>]
TextWith(str, value) == [text |-> str, bytes |-> value]
Data(bytes) == [text |-> "", bytes |-> bytes]

\* socket.writable
Writable(socket) == socket = "open"

\* clientSocket.end()
clientSocketEnd(r) ==
    IF r.clientSocket = "open" THEN [r EXCEPT !.clientSocket = "ending"] ELSE r

\* clientSocket.end(message): on a socket that has ended the write raises
\* an 'error' event, which destroys the socket.
clientSocketEndWith(r, message) ==
    IF r.clientSocket = "open"
    THEN [r EXCEPT !.clientSocket = "ending", !.toClient = Append(@, message)]
    ELSE [r EXCEPT !.clientSocket = "closed"]

\* remoteSocket.end()
remoteSocketEnd(r) ==
    IF r.remoteSocket = "open" THEN [r EXCEPT !.remoteSocket = "ending"] ELSE r

\* The 'error' listeners on the client socket while splicing.
ClientErrorListeners(r) == remoteSocketEnd(remoteSocketEnd(r))

\* The 'error' listeners on the remote socket: the one setupRemoteConnection
\* left attached and the one of setupDataForwarding.
RemoteErrorListeners(r) == clientSocketEnd(clientSocketEnd(r))

\* remoteSocket.write(data).  A write after end() raises 'error' on the
\* socket; a write on a destroyed socket is dropped.
remoteSocketWrite(r, data) ==
    CASE r.remoteSocket = "open" -> [r EXCEPT !.toRemote = Append(@, data)]
      [] r.remoteSocket = "ending" ->
            RemoteErrorListeners([r EXCEPT !.remoteSocket = "closed"])
      [] OTHER -> r

\* clientSocket.write(data)
clientSocketWrite(r, data) ==
    CASE r.clientSocket = "open" -> [r EXCEPT !.toClient = Append(@, Data(data))]
      [] r.clientSocket = "ending" ->
            ClientErrorListeners([r EXCEPT !.clientSocket = "closed"])
      [] OTHER -> r

(***************************************************************************)
(* Session pipeline, src/server/tcpProxy.js                                *)
(***************************************************************************)
NewSession(script) ==
    [ pc |-> "waitForData", exit |-> "none",
      script |-> script, sent |-> 0,
      collectedData |-> << >>,
      ip |-> << >>, domain |-> Undefined, username |-> Undefined,
      uuid |-> Undefined, target |-> NoTarget, initialDataBuffer |-> << >>,
      clientSocket |-> "open", remoteSocket |-> "null",
      toClient |-> << >>, toRemote |-> << >>,
      remoteSent |-> 0, spliceIn |-> << >>, reported |-> FALSE,
      hexDumps |-> << >> ]

\* A return statement of handleClientConnection (or the catch of the
\* listener's callback) was reached.
Returned(r, where) == [r EXCEPT !.pc = "returned", !.exit = where]

\* handleInitialData once the handshake and the login packet are parsed.
RouteFor(data, domain, username, target) ==
    IF ~Truthy(domain)
    THEN [ok |-> FALSE, err |-> Text("Failed to parse domain from handshake")]
    ELSE IF target = NoTarget
    THEN [ok |-> FALSE, err |-> TextWith("Unknown domain: ", domain)]
    ELSE [ok |-> TRUE, domain |-> domain, target |-> target,
          initialDataBuffer |-> data, username |-> username]

UsernameOf(parsed) ==
    IF Truthy(parsed.domain)
    THEN getModernMinecraftUsername(parsed.dataWithoutHandshakePacket)
    ELSE Null

HandleParsed(data, parsed) ==
    RouteFor(data, parsed.domain, UsernameOf(parsed),
             IF Truthy(parsed.domain) THEN get(parsed.domain) ELSE NoTarget)

handleInitialData(data) == HandleParsed(data, getModernMinecraftDomain(data))

\* sendConnectionInfoToManager is called, without await, when all four hold.
ReportsToManager(r) ==
    Truthy(r.ip) /\ Truthy(r.domain) /\ Truthy(r.username) /\ Truthy(r.uuid)

\* Lines 150-165: log, report to the manager, start the firewall fetch.
StartFirewallFetch(r) ==
    [r EXCEPT !.pc = "firewall", !.reported = ReportsToManager(r)]

\* Lines 142-148 when handleInitialData has returned.
AfterHandle(r, h) ==
    IF Truthy(h.username)
    THEN [r EXCEPT !.pc = "getPlayerUUID"]
    ELSE StartFirewallFetch(r)

\* Lines 132-140.
Handled(r, ip, h) ==
    IF ~h.ok
    THEN Returned(clientSocketEndWith(r, h.err), "handleInitialData")
    ELSE AfterHandle([r EXCEPT !.ip = ip,
                               !.domain = h.domain,
                               !.target = h.target,
                               !.initialDataBuffer = h.initialDataBuffer,
                               !.username = h.username], h)

\* Lines 112-130.
Extracted(r, extracted) ==
    IF ~extracted.ok
    THEN Returned(clientSocketEndWith(r, Text(extracted.err)), "extractInjectedIP")
    ELSE IF ~isModernHandshakeOrPing(extracted.dataWithoutInjectedIp)
    THEN Returned(clientSocketEndWith(r, Text("Legacy protocol not supported")), "legacy")
    ELSE Handled(r, extracted.ip, handleInitialData(extracted.dataWithoutInjectedIp))

\* Lines 112-142, run when waitForData has resolved.
AfterInitialData(r) == Extracted(r, extractInjectedIP(r.collectedData))

\* isBanned, were the uuidBan rules left out of the test.
isBannedWithoutUuid(firewallRules, ip, username, uuid) ==
    \E i \in 1..Len(firewallRules) :
        LET rule == firewallRules[i]
        IN  \/ rule.type = "ipBan" /\ rule.value = ip
            \/ rule.type = "usernameBan" /\ rule.value = username

\* firewallRules.some(...)
isBanned(firewallRules, ip, username, uuid) ==
    \E i \in 1..Len(firewallRules) :
        LET rule == firewallRules[i]
        IN  \/ rule.type = "ipBan" /\ rule.value = ip
            \/ rule.type = "usernameBan" /\ rule.value = username
            \/ rule.type = "uuidBan" /\ rule.value = uuid

\* net.createConnection throws, before any connection attempt, when the
\* options hold no port or a port outside 0..65535.
CreateConnectionThrows(target) ==
    \/ target.port.form = "undefined"
    \/ target.port.n < 0
    \/ target.port.n > 65535

\* Lines 198-211 up to the await: setupRemoteConnection is called; a throw
\* of createConnection rejects its promise and reaches the catch.
StartDial(r) ==
    IF CreateConnectionThrows(r.target)
    THEN IF ~Writable(r.clientSocket)
         THEN Returned(r, "connectFailed")
         ELSE Returned(clientSocketEndWith(r, Text("Failed to connect to remote server")),
                       "connectFailed")
    ELSE [r EXCEPT !.pc = "connect", !.remoteSocket = "connecting"]

\* The 'error' listener of setupRemoteConnection, then the catch at 204-211.
DialErrored(r) ==
    LET ended == clientSocketEnd([r EXCEPT !.remoteSocket = "closed"])
    IN  IF ~Writable(ended.clientSocket)
        THEN Returned(ended, "connectFailed")
        ELSE Returned(clientSocketEndWith(ended, Text("Failed to connect to remote server")),
                      "connectFailed")

\* The Connection object stored at lines 213-221.
ConnectionRecord(id, r) ==
    [ domain |-> r.domain, ip |-> r.ip, username |-> r.username, uuid |-> r.uuid,
      clientSocket |-> id, remotePort |-> r.target.port, connectionId |-> id ]

\* Connected, were the connect callback to write the buffer as received.
ConnectedWithHeader(r) ==
    [r EXCEPT !.remoteSocket = "open",
              !.toRemote = Append(@, r.collectedData),
              !.pc = "splice"]

\* The connect callback of setupRemoteConnection: the initial data is
\* written, then the promise resolves and splicing is set up.
Connected(r) ==
    [r EXCEPT !.remoteSocket = "open",
              !.toRemote = Append(@, r.initialDataBuffer),
              !.pc = "splice"]

(***************************************************************************)
(* Registry queries, src/server/tcpProxy.js.  targetPort is the number     *)
(* Number(req.query.targetPort); === holds for a number port only.         *)
(***************************************************************************)
StrictEqualsNumber(port, n) == port.form = "number" /\ port.n = n

findConnectionsByUsername(username, targetPort) ==
    { id \in DOMAIN activeConnections :
        /\ activeConnections[id].username = username
        /\ StrictEqualsNumber(activeConnections[id].remotePort, targetPort) }

findConnectionsByIp(ip, targetPort) ==
    { id \in DOMAIN activeConnections :
        /\ activeConnections[id].ip = ip
        /\ StrictEqualsNumber(activeConnections[id].remotePort, targetPort) }

findConnectionsByUuid(uuid, targetPort) ==
    { id \in DOMAIN activeConnections :
        /\ activeConnections[id].uuid = uuid
        /\ StrictEqualsNumber(activeConnections[id].remotePort, targetPort) }

(***************************************************************************)
(* The listener and the client side of a session.                          *)
(***************************************************************************)
\* net.createServer callback: handleClientConnection starts and awaits
\* waitForData.
Accept(script) ==
    /\ listening
    /\ sess' = (connectionId :> NewSession(script)) @@ sess
    /\ connectionId' = connectionId + 1
    /\ UNCHANGED <<activeConnections, domainRouting, response, listening, call, routingFile, netty>>

\* The 'data' listener of waitForData.
onData(r, data) == [r EXCEPT !.collectedData = @ \o data]

\* "codingbear"
Codingbear == <<99, 111, 100, 105, 110, 103, 98, 101, 97, 114>>

\* data.toString().includes(str), for a str of ASCII characters
Includes(data, str) ==
    \E i \in 0..(Len(data) - Len(str)) : SubSeq(data, i + 1, i + Len(str)) = str

\* The test both 'data' listeners of setupDataForwarding make first.
\* onNamePassed is the arrow function passed at line 225; nothing gives it
\* a property "called", so "!onNamePassed.called" is true at every frame.
\* logHexData writes the frame to the log.
Diagnosed(r, data) ==
    IF Includes(data, Codingbear) THEN [r EXCEPT !.hexDumps = Append(@, data)] ELSE r

\* ForwardToRemote, were the listener to write each chunk twice.
ForwardToRemoteTwice(r, data) == remoteSocketWrite(remoteSocketWrite(r, data), data)

\* The client 'data' listener of setupDataForwarding.
ForwardToRemote(r, data) == remoteSocketWrite(Diagnosed(r, data), data)

\* The next chunk of the client arrives.  It goes to the 'data' listener
\* attached at that moment; with none attached (the socket stays in flowing
\* mode after waitForData removed its listener) the chunk is discarded.
\* A session whose handler has returned has no listener left and is not
\* followed further.  spliceIn records the chunks that arrived while the
\* listener of setupDataForwarding was attached.
ClientSends(id) ==
    LET r == sess[id]
        data == r.script[r.sent + 1]
        r1 == [r EXCEPT !.sent = @ + 1,
                        !.spliceIn = IF r.pc = "splice" THEN Append(@, data) ELSE @]
    IN  /\ r.pc # "returned"
        /\ r.clientSocket # "closed"
        /\ r.sent < Len(r.script)
        /\ sess' = [sess EXCEPT ![id] =
                CASE r.pc = "waitForData" -> onData(r1, data)
                  [] r.pc = "splice" -> ForwardToRemote(r1, data)
                  [] OTHER -> r1]
        /\ UNCHANGED <<connectionId, activeConnections, domainRouting, response, listening, call, routingFile, netty>>

\* A timer of waitForData fires (5 ms with nothing received, or 250 ms after
\* the last chunk): the promise resolves with what was collected.
TimerFires(id) ==
    /\ sess[id].pc = "waitForData"
    /\ sess' = [sess EXCEPT ![id] = AfterInitialData(sess[id])]
    /\ UNCHANGED <<connectionId, activeConnections, domainRouting, response, listening, call, routingFile, netty>>

\* process.on('uncaughtException', ...), were it not installed: the process exits.
uncaughtExceptionMissing(alive) == FALSE

\* process.on('uncaughtException', ...) logs the error; the process goes on.
uncaughtException(alive) == alive

\* The client socket raises 'error' (a reset).  While waitForData listens
\* the promise rejects; while splicing the two error listeners run; in
\* between no listener is attached: the event is thrown and reaches the
\* process-level handler.
ClientError(id) ==
    LET r == [sess[id] EXCEPT !.clientSocket = "closed"]
    IN  /\ sess[id].pc # "returned"
        /\ sess[id].clientSocket # "closed"
        /\ sess' = [sess EXCEPT ![id] =
                CASE r.pc = "waitForData" ->
                        Returned(clientSocketEndWith(r, Text("Failed to receive initial data")),
                                 "waitForData")
                  [] r.pc = "splice" -> ClientErrorListeners(r)
                  [] OTHER -> r]
        /\ listening' = IF r.pc \in {"waitForData", "splice"}
                        THEN listening
                        ELSE uncaughtException(listening)
        /\ UNCHANGED <<connectionId, activeConnections, domainRouting, response, call, routingFile, netty>>

\* The client sends FIN: 'end' is emitted and the socket, created without
\* allowHalfOpen, closes.  Only setupDataForwarding listens for 'end'.
ClientFin(id) ==
    LET r == [sess[id] EXCEPT !.clientSocket = "closed"]
    IN  /\ sess[id].pc # "returned"
        /\ sess[id].clientSocket # "closed"
        /\ sess' = [sess EXCEPT ![id] =
                IF r.pc = "splice" THEN remoteSocketEnd(r) ELSE r]
        /\ UNCHANGED <<connectionId, activeConnections, domainRouting, response, listening, call, routingFile, netty>>

(***************************************************************************)
(* The external calls of a session.                                        *)
(***************************************************************************)
\* getPlayerUUID returns a UUID; dashes are removed at line 148.
UuidResolved(id) ==
    LET r == sess[id]
    IN  /\ r.pc = "getPlayerUUID"
        /\ sess' = [sess EXCEPT ![id] =
                StartFirewallFetch([r EXCEPT !.uuid = StripDashes(ProviderUuid(r.username))])]
        /\ UNCHANGED <<connectionId, activeConnections, domainRouting, response, listening, call, routingFile, netty>>

\* Emergency, were the catch to log the error and let the session go on.
EmergencyIgnored(r) == StartFirewallFetch(r)

\* The catch of the listener callback (lines 64-70).
Emergency(r) ==
    Returned(clientSocketEndWith(r, Text("Internal server error")), "emergency")

\* Both providers failed: getPlayerUUID throws, handleClientConnection
\* rejects and the catch of the listener callback ends the socket.
UuidUnresolved(id) ==
    LET r == sess[id]
    IN  /\ r.pc = "getPlayerUUID"
        /\ sess' = [sess EXCEPT ![id] = Emergency(r)]
        /\ UNCHANGED <<connectionId, activeConnections, domainRouting, response, listening, call, routingFile, netty>>

\* axios.get resolved with a rule list.
FirewallResponds(id, firewallRules) ==
    LET r == sess[id]
    IN  /\ r.pc = "firewall"
        /\ sess' = [sess EXCEPT ![id] =
                IF isBanned(firewallRules, r.ip, r.username, r.uuid)
                THEN Returned(clientSocketEndWith(r, Text("Connection blocked by firewall")),
                              "blocked")
                ELSE StartDial(r)]
        /\ UNCHANGED <<connectionId, activeConnections, domainRouting, response, listening, call, routingFile, netty>>

\* FirewallFails, were the failure to reach the catch of the listener.
FirewallFailsFatal(id) ==
    /\ sess[id].pc = "firewall"
    /\ sess' = [sess EXCEPT ![id] = Emergency(sess[id])]
    /\ UNCHANGED <<connectionId, activeConnections, domainRouting, response, listening, call, routingFile, netty>>

\* axios.get rejected (no manager configured, a network error, an error
\* status) or the response data is no list and "firewallRules.some" throws:
\* the catch at lines 192-196 logs and the session goes on.
FirewallFails(id) ==
    /\ sess[id].pc = "firewall"
    /\ sess' = [sess EXCEPT ![id] = StartDial(sess[id])]
    /\ UNCHANGED <<connectionId, activeConnections, domainRouting, response, listening, call, routingFile, netty>>

ConnectSucceeds(id) ==
    /\ sess[id].pc = "connect"
    /\ sess' = [sess EXCEPT ![id] = Connected(sess[id])]
    /\ activeConnections' = (id :> ConnectionRecord(id, sess[id])) @@ activeConnections
    /\ UNCHANGED <<connectionId, domainRouting, response, listening, call, routingFile, netty>>

ConnectFails(id) ==
    /\ sess[id].pc = "connect"
    /\ sess' = [sess EXCEPT ![id] = DialErrored(sess[id])]
    /\ UNCHANGED <<connectionId, activeConnections, domainRouting, response, listening, call, routingFile, netty>>

(***************************************************************************)
(* The upstream side while splicing.                                       *)
(***************************************************************************)
\* The remote 'data' listener of setupDataForwarding.
ForwardToClient(r, data) == clientSocketWrite(Diagnosed(r, data), data)

RemoteSends(id) ==
    LET r == sess[id]
    IN  /\ r.pc = "splice"
        /\ r.remoteSocket \in {"open", "ending"}
        /\ sess' = [sess EXCEPT ![id] =
                ForwardToClient([r EXCEPT !.remoteSent = @ + 1], RemoteChunk(r.remoteSent + 1))]
        /\ UNCHANGED <<connectionId, activeConnections, domainRouting, response, listening, call, routingFile, netty>>

\* The upstream sends FIN: the remote 'end' listener ends the client.
RemoteFin(id) ==
    /\ sess[id].pc = "splice"
    /\ sess[id].remoteSocket \in {"open", "ending"}
    /\ sess' = [sess EXCEPT ![id] = clientSocketEnd([sess[id] EXCEPT !.remoteSocket = "closed"])]
    /\ UNCHANGED <<connectionId, activeConnections, domainRouting, response, listening, call, routingFile, netty>>

RemoteError(id) ==
    /\ sess[id].pc = "splice"
    /\ sess[id].remoteSocket \in {"open", "ending"}
    /\ sess' = [sess EXCEPT ![id] = RemoteErrorListeners([sess[id] EXCEPT !.remoteSocket = "closed"])]
    /\ UNCHANGED <<connectionId, activeConnections, domainRouting, response, listening, call, routingFile, netty>>

(***************************************************************************)
(* Control plane, src/index.js                                             *)
(***************************************************************************)
Response(status, count) == [status |-> status, count |-> count]

\* domainRouting.set(domain, target)
set(domain, target) ==
    [d \in DOMAIN domainRouting \cup {domain} |->
        IF d = domain THEN target ELSE domainRouting[d]]

\* "!domain || !host || !port"
Missing(domain, target) ==
    \/ ~Truthy(domain)
    \/ target.host = ""
    \/ target.port.form = "undefined"
    \/ target.port.form = "number" /\ target.port.n = 0

\* saveRouting: JSON.stringify writes every own entry of the table, the
\* host and the port of each in the form they have.
saveRouting(table) == [d \in DOMAIN table |-> table[d]]

\* What a writeFileSync that throws leaves in the file: what it held (the
\* file could not be opened) or nothing (it was truncated and not written).
FailedWrites == {routingFile, << >>}

\* POST /api/routing, with domainRouting.set
PostRouting(domain, target) ==
    /\ IF Missing(domain, target)
       THEN response' = Response(400, 0) /\ UNCHANGED <<domainRouting, routingFile>>
       ELSE /\ response' = Response(201, 0)
            /\ domainRouting' = set(domain, target)
            /\ routingFile' = saveRouting(set(domain, target))
    /\ UNCHANGED <<connectionId, activeConnections, sess, listening, call, netty>>

\* POST /api/routing when saveRouting throws: set has assigned the entry,
\* the exception leaves the handler and express answers 500.
PostRoutingSaveFails(domain, target) ==
    /\ ~Missing(domain, target)
    /\ domainRouting' = set(domain, target)
    /\ routingFile' \in FailedWrites
    /\ response' = Response(500, 0)
    /\ UNCHANGED <<connectionId, activeConnections, sess, listening, call, netty>>

\* "delete domainRouting[domain]"
Deleted(domain) ==
    [d \in DOMAIN domainRouting \ {domain} |-> domainRouting[d]]

\* DELETE /api/routing/:domain, with domainRouting.remove
DeleteRouting(domain) ==
    /\ IF get(domain) # NoTarget
       THEN /\ response' = Response(200, 0)
            /\ domainRouting' = Deleted(domain)
            /\ routingFile' = saveRouting(Deleted(domain))
       ELSE response' = Response(404, 0) /\ UNCHANGED <<domainRouting, routingFile>>
    /\ UNCHANGED <<connectionId, activeConnections, sess, listening, call, netty>>

\* DELETE /api/routing/:domain when saveRouting throws.
DeleteRoutingSaveFails(domain) ==
    /\ get(domain) # NoTarget
    /\ domainRouting' = Deleted(domain)
    /\ routingFile' \in FailedWrites
    /\ response' = Response(500, 0)
    /\ UNCHANGED <<connectionId, activeConnections, sess, listening, call, netty>>

\* connections.forEach(conn => conn.clientSocket.end())
EndClientSockets(connections) ==
    [id \in DOMAIN sess |->
        IF id \in connections THEN clientSocketEnd(sess[id]) ELSE sess[id]]

\* The body the three kick routes share.
Kick(connections) ==
    /\ IF connections = {}
       THEN response' = Response(404, 0) /\ UNCHANGED sess
       ELSE /\ response' = Response(200, Cardinality(connections))
            /\ sess' = EndClientSockets(connections)
    /\ UNCHANGED <<connectionId, activeConnections, domainRouting, listening, call, routingFile, netty>>

\* PUT /api/kick/username/:username?targetPort=
KickByUsername(username, targetPort) ==
    Kick(findConnectionsByUsername(username, targetPort))

\* PUT /api/kick/ip/:ip?targetPort=
KickByIp(ip, targetPort) == Kick(findConnectionsByIp(ip, targetPort))

\* PUT /api/kick/uuid/:uuid?targetPort=
KickByUuid(uuid, targetPort) == Kick(findConnectionsByUuid(uuid, targetPort))

(***************************************************************************)
(* Spec: the listener with the whole data path of a session and no        *)
(* control-plane request: the routing table stays as loaded.  The          *)
(* environment is bounded in Next: the number of connections and the       *)
(* chunks an upstream sends.                                               *)
(***************************************************************************)
\* No codec function has been called.
NoCall == [fn |-> "none"]

\* The Netty proxy has accepted no client.
NoChannel ==
    [ inbound |-> "none", outbound |-> "null", readRequested |-> FALSE,
      handshakeProcessed |-> FALSE, script |-> << >>, arrived |-> 0, read |-> 0,
      initMsg |-> << >>, toOutbound |-> << >>, upstreamSent |-> 0,
      pendingWrites |-> << >>, toClient |-> << >> ]

MainTarget == Target("10.0.0.1", PortNumber(25565))

Init ==
    /\ connectionId = 0
    /\ activeConnections = << >>
    /\ domainRouting = (DomainA :> MainTarget)
    /\ sess = << >>
    /\ response = Response(0, 0)
    /\ listening = TRUE
    /\ call = NoCall
    /\ routingFile = saveRouting(domainRouting)
    /\ netty = NoChannel

Next ==
    \/ \E script \in Scripts : connectionId < MaxSessions /\ Accept(script)
    \/ \E id \in Ids : ClientSends(id)
    \/ \E id \in Ids : TimerFires(id)
    \/ \E id \in Ids : ClientError(id)
    \/ \E id \in Ids : ClientFin(id)
    \/ \E id \in Ids : UuidResolved(id)
    \/ \E id \in Ids : UuidUnresolved(id)
    \/ \E id \in Ids, rules \in FirewallRuleSets : FirewallResponds(id, rules)
    \/ \E id \in Ids : FirewallFails(id)
    \/ \E id \in Ids : ConnectSucceeds(id)
    \/ \E id \in Ids : ConnectFails(id)
    \/ \E id \in Ids : sess[id].remoteSent < MaxRemoteChunks /\ RemoteSends(id)
    \/ \E id \in Ids : RemoteFin(id)
    \/ \E id \in Ids : RemoteError(id)

Spec == Init /\ [][Next]_vars

(***************************************************************************)
(* SpecControl: several sessions and the whole control plane.  Clients     *)
(* send a one-chunk login and close only once spliced; upstreams accept    *)
(* and stay silent; routes are set with the port as a JSON number or as a  *)
(* JSON string.                                                            *)
(***************************************************************************)
MaxControlSessions == 2

ControlTargets ==
    { Target("10.0.0.1", PortNumber(25565)),
      Target("10.0.0.2", PortString(25566)) }

KickPorts == {25565, 25566}

\* The domains of the routing requests: "a.co" and "a.co."
RoutingDomains == {DomainA, DomainA \o <<46>>}

NextControl ==
    \/ \E script \in ControlScripts :
            connectionId < MaxControlSessions /\ Accept(script)
    \/ \E id \in Ids : ClientSends(id)
    \/ \E id \in Ids : TimerFires(id)
    \/ \E id \in Ids : sess[id].pc = "splice" /\ ClientFin(id)
    \/ \E id \in Ids : UuidResolved(id)
    \/ \E id \in Ids : FirewallResponds(id, << >>)
    \/ \E id \in Ids : ConnectSucceeds(id)
    \/ \E domain \in RoutingDomains, target \in ControlTargets :
            PostRouting(domain, target)
    \/ \E domain \in RoutingDomains : DeleteRouting(domain)
    \/ \E name \in {Alice, Bob}, port \in KickPorts : KickByUsername(name, port)
    \/ \E ip \in {Ip1, Ip2}, port \in KickPorts : KickByIp(ip, port)
    \/ \E name \in {Alice, Bob}, port \in KickPorts :
            KickByUuid(StripDashes(ProviderUuid(name)), port)

SpecControl == Init /\ [][NextControl]_vars

(***************************************************************************)
(* Properties of the data path, checked under Spec.                        *)
(***************************************************************************)
IsPrefix(s, t) == Len(s) <= Len(t) /\ SubSeq(t, 1, Len(s)) = s

\* The first n chunks of the upstream, as writes to the client.
RemoteChunks(n) == [k \in 1..n |-> Data(RemoteChunk(k))]

\* A buffer that begins with "MCIP", a length byte L and L bytes, without them.
WithoutInjectedHeader(data) == SubSeq(data, 6 + data[5], Len(data))

\* C1: the registry record of a session is removed once its client side or
\* its upstream side has closed or errored, so the registry holds a record
\* only for a session that is splicing with both sockets still connected.
RegistryHoldsOnlySplicing ==
    \A id \in DOMAIN activeConnections :
        /\ sess[id].pc = "splice"
        /\ sess[id].clientSocket # "closed"
        /\ sess[id].remoteSocket # "closed"

\* C2: once a session splices, the upstream is written, after the replayed
\* initial data, exactly the chunks the client delivers, in their order and
\* once each, for as long as the upstream socket is writable (afterwards a
\* prefix of them); and the client is written exactly the chunks the
\* upstream delivers, in their order, for as long as the client socket is
\* writable (afterwards a prefix of them).
SpliceForwardsInOrder ==
    \A id \in Ids :
        LET r == sess[id]
            fromClient == <<r.initialDataBuffer>> \o r.spliceIn
        IN  r.pc = "splice" =>
                /\ IsPrefix(r.toRemote, fromClient)
                /\ r.remoteSocket = "open" => r.toRemote = fromClient
                /\ \E n \in 0..r.remoteSent : r.toClient = RemoteChunks(n)
                /\ r.clientSocket = "open" => r.toClient = RemoteChunks(r.remoteSent)

\* C2 witness: two chunks went each way through a session with both sockets open.
SpliceForwardsInOrderWitness ==
    \E id \in Ids :
        /\ sess[id].pc = "splice"
        /\ sess[id].clientSocket = "open" /\ sess[id].remoteSocket = "open"
        /\ Len(sess[id].spliceIn) = 2 /\ Len(sess[id].toRemote) = 3
        /\ sess[id].remoteSent = 2 /\ Len(sess[id].toClient) = 2

\* C3: in a session that reached its upstream, the first write to the
\* upstream is the whole coalesced initial buffer without the injected MCIP
\* header, in one write; every later write is a chunk the client sent after
\* it; no write carries the header; and nothing is written to an upstream
\* by a session that has not reached one.
InitialDataReplayedFirst ==
    \A id \in Ids :
        LET r == sess[id]
        IN  /\ r.pc # "splice" => r.toRemote = << >>
            /\ r.pc = "splice" =>
                /\ Len(r.toRemote) >= 1
                /\ r.toRemote[1] = WithoutInjectedHeader(r.collectedData)
                /\ \A i \in 2..Len(r.toRemote) : r.toRemote[i] = r.spliceIn[i - 1]
                /\ \A i \in 1..Len(r.toRemote) : ~IsPrefix(MCIP, r.toRemote[i])

\* C3 witness: the initial buffer coalesced two chunks of the client and a
\* later chunk was forwarded after it.
InitialDataReplayedFirstWitness ==
    \E id \in Ids :
        /\ sess[id].pc = "splice"
        /\ Len(sess[id].collectedData) > Len(sess[id].script[1])
        /\ Len(sess[id].toRemote) = 2

\* The server address of the handshake that follows the injected header:
\* length, id, protocol version, address length, address.
HandshakeAddress(data) ==
    SubSeq(WithoutInjectedHeader(data), 5, 4 + WithoutInjectedHeader(data)[4])

\* The last byte of that handshake packet.
HandshakeNextState(data) ==
    WithoutInjectedHeader(data)[1 + WithoutInjectedHeader(data)[1]]

\* The initial buffer of the session was read and holds the client's handshake.
HasParsed(r) ==
    r.pc # "waitForData" /\ r.exit # "waitForData" /\ r.collectedData # << >>

\* The initial buffer holds the header and then a whole handshake frame
\* with a one-byte length, the id 0x00, a one-byte protocol version and a
\* one-byte address length.
HasHandshake(r) ==
    /\ HasParsed(r) /\ r.exit # "extractInjectedIP"
    /\ Len(WithoutInjectedHeader(r.collectedData)) >= 4
    /\ \A i \in 1..4 : WithoutInjectedHeader(r.collectedData)[i] < 128
    /\ WithoutInjectedHeader(r.collectedData)[2] = 0
    /\ 4 + WithoutInjectedHeader(r.collectedData)[4]
            <= Len(WithoutInjectedHeader(r.collectedData))
    /\ WithoutInjectedHeader(r.collectedData)[1]
            <= Len(WithoutInjectedHeader(r.collectedData)) - 1

\* C4: a kick by username (name, port) ends the client socket of every
\* registered session that has that username and was dialled on that
\* upstream port, reports how many they are, and leaves every other session
\* and the registry as they were.
KickByUsernameEndsMatching ==
    [][\A name \in {Alice, Bob}, port \in KickPorts :
          KickByUsername(name, port) =>
              LET matching == { id \in DOMAIN activeConnections :
                                    /\ sess[id].username = name
                                    /\ sess[id].target.port.n = port }
              IN  /\ \A id \in matching : sess'[id].clientSocket # "open"
                  /\ \A id \in Ids \ matching : sess'[id] = sess[id]
                  /\ response'.count = Cardinality(matching)
                  /\ activeConnections' = activeConnections]_vars

\* C5: a session whose handshake names a domain that has no route in the
\* routing table fails as an unknown domain: its client socket is ended,
\* the unknown-domain diagnostic is what a still-connected client was
\* written, no upstream is dialled and no registry record is inserted.
UnroutedDomainRejected ==
    \A id \in Ids :
        LET r == sess[id]
        IN  (HasHandshake(r) /\ HandshakeAddress(r.collectedData) \notin DOMAIN domainRouting) =>
                /\ r.exit = "handleInitialData"
                /\ r.clientSocket # "open"
                /\ r.clientSocket = "ending" =>
                     r.toClient = <<TextWith("Unknown domain: ", HandshakeAddress(r.collectedData))>>
                /\ r.remoteSocket = "null"
                /\ id \notin DOMAIN activeConnections

\* C6: when the firewall rules were fetched, the session is blocked exactly
\* when some rule is an ipBan of its ip, a usernameBan of its username or a
\* uuidBan of its dash-stripped UUID; a blocked session is ended, a client
\* still connected is written "Connection blocked by firewall", and a
\* blocked session has dialled no upstream, written nothing to one and has
\* no registry record.
FirewallBlocksExactlyMatches ==
    [][/\ \A id \in Ids, rules \in FirewallRuleSets :
            FirewallResponds(id, rules) =>
                LET r == sess[id]
                    uuid == IF Truthy(r.username)
                            THEN StripDashes(ProviderUuid(r.username))
                            ELSE Undefined
                    matched == \E i \in 1..Len(rules) :
                                  \/ rules[i] = Rule("ipBan", r.ip)
                                  \/ rules[i] = Rule("usernameBan", r.username)
                                  \/ rules[i] = Rule("uuidBan", uuid)
                IN  /\ (sess'[id].exit = "blocked") <=> matched
                    /\ matched =>
                         /\ sess'[id].pc = "returned"
                         /\ sess'[id].clientSocket # "open"
                         /\ r.clientSocket = "open" =>
                              sess'[id].toClient = <<Text("Connection blocked by firewall")>>
       /\ \A id \in DOMAIN sess' :
            sess'[id].exit = "blocked" =>
                /\ sess'[id].remoteSocket = "null"
                /\ sess'[id].toRemote = << >>
                /\ id \notin DOMAIN activeConnections']_vars

\* C6 witness: a session with a resolved UUID was blocked and told so.
FirewallBlocksExactlyMatchesWitness ==
    \E id \in Ids :
        /\ sess[id].exit = "blocked"
        /\ Truthy(sess[id].uuid)
        /\ sess[id].toClient = <<Text("Connection blocked by firewall")>>

\* C7: a session that parsed a username and whose UUID lookup ended
\* unresolved is terminated: its client socket is ended, no upstream is
\* dialled, nothing is written to an upstream, nothing is reported to the
\* manager and no registry record is inserted.
UnresolvedUuidTerminates ==
    \A id \in Ids :
        LET r == sess[id]
        IN  (Truthy(r.username) /\ ~Truthy(r.uuid) /\ r.pc # "getPlayerUUID") =>
                /\ r.pc = "returned"
                /\ r.clientSocket # "open"
                /\ r.remoteSocket = "null"
                /\ r.toRemote = << >>
                /\ ~r.reported
                /\ id \notin DOMAIN activeConnections

\* C7 witness: the lookup of a parsed username failed and ended the session.
UnresolvedUuidTerminatesWitness ==
    \E id \in Ids :
        /\ sess[id].exit = "emergency"
        /\ sess[id].username = Alice
        /\ sess[id].clientSocket = "ending"

\* C8: a session whose handshake has nextState 1 and a routed domain,
\* whatever bytes follow the handshake in the initial buffer, makes no UUID
\* lookup and no manager report, is not failed by the parser, and is
\* registered with username and uuid absent.
StatusSessionSkipsLookup ==
    \A id \in Ids :
        LET r == sess[id]
        IN  (/\ HasHandshake(r)
             /\ HandshakeNextState(r.collectedData) = 1
             /\ HandshakeAddress(r.collectedData) \in DOMAIN domainRouting) =>
                /\ r.pc # "getPlayerUUID"
                /\ ~Truthy(r.username) /\ ~Truthy(r.uuid)
                /\ ~r.reported
                /\ r.exit \notin {"handleInitialData", "emergency", "legacy", "extractInjectedIP"}
                /\ id \in DOMAIN activeConnections =>
                     /\ ~Truthy(activeConnections[id].username)
                     /\ ~Truthy(activeConnections[id].uuid)

\* C9: a session whose dial failed has its client socket ended, a client
\* that was still connected was written "Failed to connect to remote
\* server" before the end, and no registry record is inserted.
DialFailureDiagnosed ==
    \A id \in Ids :
        LET r == sess[id]
        IN  r.exit = "connectFailed" =>
                /\ r.clientSocket # "open"
                /\ r.clientSocket = "ending" =>
                     r.toClient = <<Text("Failed to connect to remote server")>>
                /\ id \notin DOMAIN activeConnections

\* C10: once the client socket of a session has closed or errored after the
\* initial read and before splicing, no step dials an upstream for the
\* session and no step leaves a registry record for it.
CancelledSessionDoesNotAdvance ==
    [][\A id \in Ids :
          (/\ sess[id].clientSocket = "closed"
           /\ sess[id].pc \in {"getPlayerUUID", "firewall", "connect"}) =>
              /\ ~(sess[id].remoteSocket = "null" /\ sess'[id].remoteSocket = "connecting")
              /\ id \notin DOMAIN activeConnections']_vars

\* C11: while a session splices, an EOF of one side leaves the other side
\* ended (no longer open for writing), and an error raised on either side
\* leaves both sockets of the session fully closed.
TeardownClosesBoth ==
    [][\A id \in Ids :
          /\ ClientFin(id) /\ sess[id].pc = "splice" =>
                sess'[id].remoteSocket # "open"
          /\ RemoteFin(id) => sess'[id].clientSocket # "open"
          /\ (ClientError(id) /\ sess[id].pc = "splice") \/ RemoteError(id) =>
                /\ sess'[id].clientSocket = "closed"
                /\ sess'[id].remoteSocket = "closed"]_vars

\* The first n chunks of a script, concatenated.
RECURSIVE Joined(_, _)
Joined(script, n) == IF n = 0 THEN << >> ELSE Joined(script, n - 1) \o script[n]

\* The number of chunks waitForData collected before it resolved.
InitialChunks(r) ==
    CHOOSE k \in 0..Len(r.script) : Joined(r.script, k) = r.collectedData

\* The chunks the client sent after waitForData resolved.
SentAfterInitialRead(r) == SubSeq(r.script, InitialChunks(r) + 1, r.sent)

\* C35: no client byte is lost between the initial read and the splice:
\* while the upstream of a spliced session is open it has been written the
\* initial payload and then every chunk the client sent after the initial
\* read resolved, in order.
NoChunkLostBeforeSplice ==
    \A id \in Ids :
        sess[id].pc = "splice" /\ sess[id].remoteSocket = "open" =>
            sess[id].toRemote = <<sess[id].initialDataBuffer>> \o SentAfterInitialRead(sess[id])

\* C35, the end of the stream: a client that has closed has no spliced
\* upstream left open.
ClientEofReachesUpstream ==
    \A id \in Ids :
        sess[id].pc = "splice" /\ sess[id].clientSocket = "closed" =>
            sess[id].remoteSocket # "open"

\* C36: the upstream a session starts to dial is the one the routing table
\* holds for the session's domain at that moment.
DialsCurrentRoute ==
    [][\A id \in Ids :
          sess[id].pc = "firewall" /\ sess'[id].pc = "connect" =>
              sess'[id].target = get(sess[id].domain)]_vars

(***************************************************************************)
(* SpecFailures: several sessions of one-chunk logins in which every step  *)
(* of the pipeline can fail: the client resets at any stage, the UUID      *)
(* lookup and the firewall fetch fail, the dial is refused, the upstream   *)
(* resets.                                                                 *)
(***************************************************************************)
MaxFailureSessions == 2

NextFailures ==
    \/ connectionId < MaxFailureSessions /\ Accept(ScriptAliceShort)
    \/ \E id \in Ids : ClientSends(id)
    \/ \E id \in Ids : TimerFires(id)
    \/ \E id \in Ids : ClientError(id)
    \/ \E id \in Ids : UuidResolved(id)
    \/ \E id \in Ids : UuidUnresolved(id)
    \/ \E id \in Ids : FirewallResponds(id, << >>)
    \/ \E id \in Ids : FirewallFails(id)
    \/ \E id \in Ids : ConnectSucceeds(id)
    \/ \E id \in Ids : ConnectFails(id)
    \/ \E id \in Ids : RemoteError(id)

SpecFailures == Init /\ [][NextFailures]_vars

\* C12: a failure inside one session (a step that throws, a socket error at
\* any stage, an external call that fails) leaves the process running and
\* the listener accepting, and changes no other session's state, no
\* registry record, and neither the id counter nor the routing table.
FailureStaysInSession ==
    [][/\ listening'
       /\ \A id \in Ids :
            (\/ ClientError(id) \/ RemoteError(id) \/ UuidUnresolved(id)
             \/ FirewallFails(id) \/ ConnectFails(id)) =>
                /\ \A other \in Ids \ {id} : sess'[other] = sess[other]
                /\ activeConnections' = activeConnections
                /\ connectionId' = connectionId
                /\ domainRouting' = domainRouting]_vars

\* C12 witness: the client of one session reset while its firewall fetch
\* was pending, and another session splices with both sockets open.
FailureStaysInSessionWitness ==
    /\ listening
    /\ \E id \in Ids, other \in Ids :
        /\ sess[id].pc = "firewall" /\ sess[id].clientSocket = "closed"
        /\ sess[other].pc = "splice"
        /\ sess[other].clientSocket = "open" /\ sess[other].remoteSocket = "open"

\* C27: a failure of the firewall fetch is not fatal: the session is not
\* blocked and not ended by it, it is left exactly as a fetch that returned
\* no rule leaves it, and it goes on to dial its upstream (a dial that
\* createConnection refuses to start fails as a dial).
FirewallFailureNotFatal ==
    [][\A id \in Ids :
          FirewallFails(id) =>
              /\ FirewallResponds(id, << >>)
              /\ sess'[id].exit \notin {"blocked", "emergency"}
              /\ IF CreateConnectionThrows(sess[id].target)
                 THEN sess'[id].exit = "connectFailed"
                 ELSE /\ sess'[id].pc = "connect"
                      /\ sess'[id].remoteSocket = "connecting"
                      /\ sess'[id].clientSocket = sess[id].clientSocket
                      /\ sess'[id].toClient = sess[id].toClient]_vars

\* C27 witness: a session is dialling its upstream, its client still
\* connected and written nothing.
FirewallFailureNotFatalWitness ==
    \E id \in Ids :
        /\ sess[id].pc = "connect" /\ sess[id].remoteSocket = "connecting"
        /\ sess[id].clientSocket = "open" /\ sess[id].toClient = << >>
        /\ Truthy(sess[id].uuid)

\* C29: the manager is told about a session only after the firewall
\* decision for it: no session is reported while its firewall fetch is
\* pending, and a session blocked by the firewall is never reported.
ReportedAfterFirewall ==
    \A id \in Ids :
        /\ sess[id].pc = "firewall" => ~sess[id].reported
        /\ sess[id].exit = "blocked" => ~sess[id].reported

\* C13: a session whose coalesced initial bytes do not begin with "MCIP" is
\* rejected: its client socket is ended, a client still connected was
\* written the codec's error string, no handshake is parsed, no upstream
\* is dialled or written and no registry record is inserted.
MissingMarkerRejected ==
    \A id \in Ids :
        LET r == sess[id]
        IN  (/\ r.pc # "waitForData" /\ r.exit # "waitForData"
             /\ ~IsPrefix(MCIP, r.collectedData)) =>
                /\ r.pc = "returned" /\ r.exit = "extractInjectedIP"
                /\ r.clientSocket # "open"
                /\ r.clientSocket = "ending" =>
                     r.toClient = <<Text("Invalid packet: Missing MCIP marker.")>>
                /\ r.domain = Undefined /\ r.target = NoTarget
                /\ r.remoteSocket = "null" /\ r.toRemote = << >>
                /\ id \notin DOMAIN activeConnections

\* C13 witness: a handshake that arrived without the header was rejected
\* with the codec's error string.
MissingMarkerRejectedWitness ==
    \E id \in Ids :
        /\ sess[id].collectedData = ScriptNoMarker[1]
        /\ sess[id].exit = "extractInjectedIP"
        /\ sess[id].toClient = <<Text("Invalid packet: Missing MCIP marker.")>>

(***************************************************************************)
(* SpecCodec: the functions of src/utils/protocolUtils.js applied to       *)
(* inputs drawn from bounded sets, one call in a behaviour.  No connection *)
(* is accepted.                                                            *)
(***************************************************************************)
\* Bytes that may follow the marker in a buffer given to extractInjectedIP.
MaxTailLen == 3
\* Characters of a string given to sanitizeDomain.
MaxDomainLen == 4
\* Every integer up to this one is encoded and read back.
MaxSmallVarInt == 300

\* Bytes of a buffer given to readVarInt with an offset.
MaxVarIntBufLen == 6

SeqsUpTo(S, n) == UNION { [1..k -> S] : k \in 0..n }

\* Buffers of bytes with and without the continuation bit.
VarIntBuffers == SeqsUpTo({0, 127, 128, 255}, MaxVarIntBufLen)
VarIntOffsets == {0, 1}

\* Buffers that begin with the marker: length bytes 0, 1, 2 and the letter A.
MarkerBuffers == { MCIP \o tail : tail \in SeqsUpTo({0, 1, 2, 65}, MaxTailLen) }

\* a, F, M, L, 1, dot, dash, space
DomainAlphabet == {97, 70, 77, 76, 49, 46, 45, 32}
DomainStrings == SeqsUpTo(DomainAlphabet, MaxDomainLen)

\* The Minecraft VarInt of n: groups of 7 bits, the least significant
\* first, bit 0x80 set on every byte but the last.
RECURSIVE EncodeVarInt(_)
EncodeVarInt(n) ==
    IF n < 128 THEN <<n>> ELSE <<128 + (n % 128)>> \o EncodeVarInt(n \div 128)

\* Small integers, the ends of every encoding length, and the largest
\* integer below 2^31.
VarIntSamples ==
    (0..MaxSmallVarInt)
        \cup { Pow2(7 * k) - 1 : k \in 1..4 } \cup { Pow2(7 * k) : k \in 1..4 }
        \cup { 25565, 1234567890, 2147483647 }

CallExtractInjectedIP(data) ==
    /\ call = NoCall
    /\ call' = [fn |-> "extractInjectedIP", arg |-> data, result |-> extractInjectedIP(data)]
    /\ UNCHANGED <<connectionId, activeConnections, domainRouting, sess, response, listening, routingFile, netty>>

CallSanitizeDomain(domain) ==
    /\ call = NoCall
    /\ call' = [fn |-> "sanitizeDomain", arg |-> domain, result |-> sanitizeDomain(domain)]
    /\ UNCHANGED <<connectionId, activeConnections, domainRouting, sess, response, listening, routingFile, netty>>

CallReadVarInt(buffer) ==
    /\ call = NoCall
    /\ call' = [fn |-> "readVarInt", arg |-> buffer, result |-> readVarInt(buffer, 0)]
    /\ UNCHANGED <<connectionId, activeConnections, domainRouting, sess, response, listening, routingFile, netty>>

CallReadVarIntAt(buffer, offset) ==
    /\ call = NoCall
    /\ call' = [fn |-> "readVarIntAt", arg |-> buffer, offset |-> offset,
                result |-> readVarInt(buffer, offset)]
    /\ UNCHANGED <<connectionId, activeConnections, domainRouting, sess, response, listening, routingFile, netty>>

NextCodec ==
    \/ call = NoCall /\ \E data \in MarkerBuffers : CallExtractInjectedIP(data)
    \/ call = NoCall /\ \E domain \in DomainStrings : CallSanitizeDomain(domain)
    \/ call = NoCall /\ \E n \in VarIntSamples : CallReadVarInt(EncodeVarInt(n))
    \/ call = NoCall /\ \E buffer \in VarIntBuffers, offset \in VarIntOffsets :
            CallReadVarIntAt(buffer, offset)

SpecCodec == Init /\ [][NextCodec]_vars

\* C14: extractInjectedIP fails with the short-header error for every
\* buffer that begins with "MCIP" and holds fewer than 5 + L bytes, L being
\* the byte at index 4, also when the buffer is the four marker bytes alone.
ShortHeaderFails ==
    (/\ call.fn = "extractInjectedIP"
     /\ IsPrefix(MCIP, call.arg)
     /\ Len(call.arg) = 4 \/ Len(call.arg) < 5 + call.arg[5]) =>
        call.result = Fail("Packet length mismatch with injected data length.")

\* The number of bytes of the VarInt that begins at the 1-based position
\* pos of buf: up to five bytes, all but the last with bit 0x80 set; 0 when
\* the buffer holds no such bytes there.
VarIntBytes(buf, pos) ==
    LET ends == { k \in 1..5 :
                    /\ pos + k - 1 <= Len(buf)
                    /\ buf[pos + k - 1] < 128
                    /\ \A j \in 1..(k - 1) : buf[pos + j - 1] >= 128 }
    IN  IF ends = {} THEN 0 ELSE CHOOSE k \in ends : TRUE

\* The VarInt of k bytes at pos has the value 0 or 1 as a 32-bit integer.
VarIntIsZeroOrOne(buf, pos, k) ==
    /\ buf[pos] % 128 \in {0, 1}
    /\ \A j \in 2..k : buf[pos + j - 1] % (IF j = 5 THEN 16 ELSE 128) = 0

\* buf decodes as a VarInt packetLength followed by a VarInt packetId that
\* is 0x00 or 0x01.
DecodesAsModern(buf) ==
    /\ VarIntBytes(buf, 1) > 0
    /\ VarIntBytes(buf, 1 + VarIntBytes(buf, 1)) > 0
    /\ VarIntIsZeroOrOne(buf, 1 + VarIntBytes(buf, 1),
                         VarIntBytes(buf, 1 + VarIntBytes(buf, 1)))

\* The injected header of the session's initial buffer was extracted.
HeaderExtracted(r) ==
    HasParsed(r) /\ r.exit # "extractInjectedIP"

\* A session is failed as legacy exactly when what follows the header does
\* not decode as modern, and a session failed as legacy is ended with
\* "Legacy protocol not supported" and reaches no upstream.
ClassifiedAsDecoded(r, id) ==
    /\ (r.exit = "legacy") <=> ~DecodesAsModern(WithoutInjectedHeader(r.collectedData))
    /\ r.exit = "legacy" =>
        /\ r.pc = "returned"
        /\ r.clientSocket # "open"
        /\ r.clientSocket = "ending" =>
             r.toClient = <<Text("Legacy protocol not supported")>>
        /\ r.remoteSocket = "null" /\ r.toRemote = << >>
        /\ id \notin DOMAIN activeConnections

\* C15 as stated: after the header is stripped a buffer is classified modern
\* exactly when it decodes as VarInt packetLength, VarInt packetId with the
\* id 0x00 or 0x01; every buffer whose first byte is 0xFE is classified
\* legacy; a legacy session is closed with "Legacy protocol not supported"
\* without dialling.
FirstByteFEIsLegacy ==
    \A id \in Ids :
        LET r == sess[id]
            rest == WithoutInjectedHeader(r.collectedData)
        IN  HeaderExtracted(r) =>
                /\ ClassifiedAsDecoded(r, id)
                /\ (rest # << >> /\ rest[1] = 254) => r.exit = "legacy"

\* C15 as amended: the same, but a buffer whose first byte is 0xFE is
\* classified legacy only when the bytes after it do not complete such a
\* pair of VarInts, as is the case of the legacy pings FE, FE 01 and
\* FE 01 FA.
LegacyPingIsLegacy ==
    \A id \in Ids :
        LET r == sess[id]
            rest == WithoutInjectedHeader(r.collectedData)
        IN  HeaderExtracted(r) =>
                /\ ClassifiedAsDecoded(r, id)
                /\ (\/ rest = <<254>> \/ rest = <<254, 1>>
                    \/ IsPrefix(<<254, 1, 250>>, rest)) => r.exit = "legacy"

\* C15 witness: a legacy ping was classified legacy and answered so.
LegacyPingIsLegacyWitness ==
    \E id \in Ids :
        /\ sess[id].collectedData = ScriptLegacyPing[1]
        /\ sess[id].exit = "legacy"
        /\ sess[id].toClient = <<Text("Legacy protocol not supported")>>

\* What follows the header is a handshake frame (one-byte length, id 0x00,
\* one-byte protocol version) whose address length exceeds the bytes that
\* remain in the buffer.
AddressCutShort(rest) ==
    /\ Len(rest) >= 4
    /\ rest[1] < 128 /\ rest[2] = 0 /\ rest[3] < 128 /\ rest[4] < 128
    /\ 4 + rest[4] > Len(rest)

\* What follows the header is a frame with the id 0x01.
FirstPacketIsPing(rest) ==
    Len(rest) >= 2 /\ rest[1] < 128 /\ rest[2] = 1

\* C16: a session whose handshake does not parse (the address length
\* exceeds the bytes that remain, or the first packet has the id 0x01) is
\* failed by the parser: no domain is taken from it, no route is used and
\* no upstream is dialled; a truncated address is never the routing domain.
UnparsedHandshakeFails ==
    \A id \in Ids :
        LET r == sess[id]
            rest == WithoutInjectedHeader(r.collectedData)
        IN  (HeaderExtracted(r) /\ (AddressCutShort(rest) \/ FirstPacketIsPing(rest))) =>
                /\ r.pc = "returned" /\ r.exit = "handleInitialData"
                /\ r.domain = Undefined /\ r.target = NoTarget
                /\ r.remoteSocket = "null"
                /\ id \notin DOMAIN activeConnections

\* str.toLowerCase() for the letters A to Z
Lower(str) ==
    [i \in 1..Len(str) |-> IF str[i] >= 65 /\ str[i] <= 90 THEN str[i] + 32 ELSE str[i]]

\* C18: a handshake whose server address, once normalised and lowercased,
\* is a routed domain resolves to the upstream of that route: the session
\* is not failed as an unknown domain and its target is that route.
CaseInsensitiveRoute ==
    \A id \in Ids :
        LET r == sess[id]
            domain == Lower(sanitizeDomain(HandshakeAddress(r.collectedData)))
        IN  (HasHandshake(r) /\ domain \in DOMAIN domainRouting) =>
                /\ r.exit # "handleInitialData"
                /\ r.target = domainRouting[domain]

\* C19: the domain normalisation is idempotent: normalising the result of
\* sanitizeDomain again gives the same string.
SanitizeIdempotent ==
    call.fn = "sanitizeDomain" => sanitizeDomain(call.result) = call.result

\* C20: for every n in [0, 2^31), readVarInt applied to the Minecraft
\* VarInt encoding of n returns the value n and, as bytesRead, the length
\* of the encoding.
VarIntRoundTrip ==
    \A n \in VarIntSamples :
        (call.fn = "readVarInt" /\ call.arg = EncodeVarInt(n)) =>
            call.result = [ok |-> TRUE, value |-> n, bytesRead |-> Len(call.arg)]

\* C20 witness: the largest integer below 2^31 was read back from its five bytes.
VarIntRoundTripWitness ==
    /\ call.fn = "readVarInt"
    /\ call.arg = <<255, 255, 255, 255, 7>>
    /\ call.result.ok /\ call.result.value = 2147483647

\* C21: readVarInt fails when the buffer ends before a byte without the
\* continuation bit is read and when five consecutive bytes from the offset
\* all carry the bit; its outcome depends on at most five bytes from the
\* offset; on success bytesRead is between 1 and 5 and is the position of
\* the first byte without the bit.
ReadVarIntBounded ==
    call.fn = "readVarIntAt" =>
        LET rest == SubSeq(call.arg, call.offset + 1, Len(call.arg))
            endsUnterminated == \A i \in 1..Len(rest) : rest[i] >= 128
            fiveContinued == Len(rest) >= 5 /\ \A i \in 1..5 : rest[i] >= 128
        IN  /\ (endsUnterminated \/ fiveContinued) <=> ~call.result.ok
            /\ call.result.ok =>
                    /\ call.result.bytesRead \in 1..5
                    /\ rest[call.result.bytesRead] < 128
                    /\ \A i \in 1..(call.result.bytesRead - 1) : rest[i] >= 128
            /\ call.result = readVarInt(SubSeq(rest, 1, Min(5, Len(rest))), 0)

\* C21 witness: five bytes with the continuation bit and a sixth without
\* were read as too big.
ReadVarIntBoundedWitness ==
    /\ call.fn = "readVarIntAt"
    /\ call.arg = <<255, 255, 255, 255, 255, 0>> /\ call.offset = 0
    /\ call.result = Fail("VarInt is too big")

(***************************************************************************)
(* Properties of the control plane, checked under SpecControl.             *)
(***************************************************************************)
\* C17: after an upsert of (d, h, p) the route of the normalised d is
\* (h, p); after a remove of d the normalised d has no route; every key of
\* the table is a normalised domain.
UpsertThenGetNormalised ==
    [][/\ \A key \in DOMAIN domainRouting' : sanitizeDomain(key) = key
       /\ \A d \in RoutingDomains :
            /\ \A target \in ControlTargets :
                 PostRouting(d, target) =>
                    /\ sanitizeDomain(d) \in DOMAIN domainRouting'
                    /\ domainRouting'[sanitizeDomain(d)] = target
            /\ DeleteRouting(d) => sanitizeDomain(d) \notin DOMAIN domainRouting']_vars

\* C22: a session registered with username u, injected IP i, UUID x and
\* dialled on the upstream port p, in whatever form the route gave the
\* port, is included in the queries by (u, p), by (i, p) and by (x, p) for
\* as long as it is splicing.
RegisteredSessionIsFound ==
    \A id \in DOMAIN activeConnections :
        LET r == sess[id]
        IN  r.pc = "splice" =>
                /\ id \in findConnectionsByUsername(r.username, r.target.port.n)
                /\ id \in findConnectionsByIp(r.ip, r.target.port.n)
                /\ id \in findConnectionsByUuid(r.uuid, r.target.port.n)

\* The sessions among the given ones whose client socket is still open.
Live(connections) == { id \in connections : sess[id].clientSocket = "open" }

\* A kick that found the given records reports the live sessions among
\* them, and not found when none is live.
ReportsLive(connections) ==
    /\ response'.count = Cardinality(Live(connections))
    /\ Live(connections) = {} => response'.status = 404

\* C23: a kick by username, IP or UUID reports the number of sessions it
\* kicked, and reports not found (count 0) whenever no live session matches:
\* once every session matching a key has closed or was kicked, a further
\* kick for that key reports not found.
KickReportsLiveSessions ==
    [][/\ \A name \in {Alice, Bob}, port \in KickPorts :
            /\ KickByUsername(name, port) =>
                    ReportsLive(findConnectionsByUsername(name, port))
            /\ KickByUuid(StripDashes(ProviderUuid(name)), port) =>
                    ReportsLive(findConnectionsByUuid(StripDashes(ProviderUuid(name)), port))
       /\ \A ip \in {Ip1, Ip2}, port \in KickPorts :
            KickByIp(ip, port) => ReportsLive(findConnectionsByIp(ip, port))]_vars

(***************************************************************************)
(* SpecApi: the control plane behind its authentication middleware.       *)
(* Every request carries an x-api-key header, or none; a client logs in,   *)
(* is spliced and sends a further chunk; routes are upserted with hosts    *)
(* and ports of every kind.                                                *)
(***************************************************************************)
MaxApiSessions == 1

\* process.env.API_KEY: "key"
API_KEY == <<107, 101, 121>>

\* No header, an empty one, the secret, "Key" and "key ".
ApiKeyHeaders ==
    { Undefined, << >>, API_KEY, <<75, 101, 121>>, API_KEY \o <<32>> }

\* authenticateApiKey, were any header that is present let through.
authenticateApiKeyPresentOnly(authHeader) ==
    IF ~Truthy(authHeader) THEN 401 ELSE 0

\* authenticateApiKey: the status it answers with, 0 when it calls next().
authenticateApiKey(authHeader) ==
    IF ~Truthy(authHeader) THEN 401
    ELSE IF authHeader # API_KEY THEN 403
    ELSE 0

\* A request with the given header for the given route: the middleware
\* answers itself or hands the request on to the route.
ApiRequest(authHeader, route) ==
    IF authenticateApiKey(authHeader) = 0
    THEN route
    ELSE /\ response' = Response(authenticateApiKey(authHeader), 0)
         /\ UNCHANGED <<connectionId, activeConnections, domainRouting, sess,
                        listening, call, routingFile, netty>>

\* Bodies of POST /api/routing: a domain or none, a host or none, a port
\* that is a TCP port, zero or above 65535.
ApiDomains == {DomainA, << >>}
ApiTargets ==
    { MainTarget,
      Target("", PortNumber(25565)),
      Target("10.0.0.2", PortNumber(0)),
      Target("10.0.0.2", PortNumber(70000)) }

\* A login and one later chunk
ScriptAliceThenPlay ==
    << InjectedHeader(Ip1) \o Handshake(DomainA, 2) \o LoginStart(Alice), Play1 >>

\* The requests of the control plane that carry the given header.
ApiRoutes(authHeader) ==
    \/ \E domain \in ApiDomains, target \in ApiTargets :
            ApiRequest(authHeader, PostRouting(domain, target))
    \/ ApiRequest(authHeader, DeleteRouting(DomainA))
    \/ ApiRequest(authHeader, KickByUsername(Alice, 25565))
    \/ ApiRequest(authHeader, KickByIp(Ip1, 25565))
    \/ ApiRequest(authHeader, KickByUuid(StripDashes(ProviderUuid(Alice)), 25565))

NextApi ==
    \/ connectionId < MaxApiSessions /\ Accept(ScriptAliceThenPlay)
    \/ \E id \in Ids : ClientSends(id)
    \/ \E id \in Ids : TimerFires(id)
    \/ \E id \in Ids : UuidResolved(id)
    \/ \E id \in Ids : FirewallResponds(id, << >>)
    \/ \E id \in Ids : ConnectSucceeds(id)
    \/ \E authHeader \in ApiKeyHeaders : ApiRoutes(authHeader)

SpecApi == Init /\ [][NextApi]_vars

\* C24: after the control plane kicked a live session (ended its client
\* socket while it spliced with its upstream open), no chunk the client
\* sends afterwards is forwarded to the upstream.
KickedSessionStopsForwarding ==
    [][\A id \in Ids :
          (/\ ClientSends(id)
           /\ sess[id].pc = "splice"
           /\ sess[id].clientSocket = "ending"
           /\ sess[id].remoteSocket = "open") =>
              sess'[id].toRemote = sess[id].toRemote]_vars

\* C25: a control-plane request whose API-key header is missing or is not
\* exactly the configured secret is answered as unauthorised (401 or 403)
\* and changes neither the routing table nor the registry nor any session
\* or socket.
UnauthorisedChangesNothing ==
    [][\A authHeader \in ApiKeyHeaders \ {API_KEY} :
          ApiRoutes(authHeader) =>
              /\ response'.status \in {401, 403}
              /\ domainRouting' = domainRouting
              /\ activeConnections' = activeConnections
              /\ sess' = sess
              /\ connectionId' = connectionId]_vars

\* C25 witness: a request with a wrong key was refused while a session
\* that a kick would match was splicing with both sockets open.
UnauthorisedChangesNothingWitness ==
    /\ response.status = 403
    /\ DomainA \in DOMAIN domainRouting
    /\ \E id \in DOMAIN activeConnections :
        /\ sess[id].pc = "splice" /\ sess[id].username = Alice
        /\ sess[id].clientSocket = "open" /\ sess[id].remoteSocket = "open"

\* A port that is an integer in 1..65535.
ValidPort(port) == port.form = "number" /\ port.n >= 1 /\ port.n <= 65535

\* C26: an upsert with an empty domain, an empty host or a port that is not
\* an integer in 1..65535 is rejected with a validation error and leaves
\* the routing table unchanged.
UpsertValidated ==
    [][\A domain \in ApiDomains, target \in ApiTargets :
          (/\ ApiRequest(API_KEY, PostRouting(domain, target))
           /\ domain = << >> \/ target.host = "" \/ ~ValidPort(target.port)) =>
              /\ response'.status = 400
              /\ domainRouting' = domainRouting]_vars

(***************************************************************************)
(* SpecResolver: one UUID lookup, src/utils/mojangApiUtils.js, with the    *)
(* guard of its caller (tcpProxy.js line 142).  The variable call holds    *)
(* the position of the lookup, the provider calls it has made and its      *)
(* result.  fetchData returns null for a network error, a status that is   *)
(* not ok and a body that is not JSON.                                     *)
(***************************************************************************)
MAX_ATTEMPTS == 3

FetchNull == [data |-> "null", id |-> Undefined]
Fetched(id) == [data |-> "object", id |-> id]

\* What fetchData may return for a provider URL: null, an object without
\* the field, with an empty one, with the UUID.
ProviderResponses(username) ==
    { FetchNull, Fetched(Undefined), Fetched(<< >>), Fetched(ProviderUuid(username)) }

\* "data && data.uuid", "mojangData && mojangData.id"
HasId(data) == data.data = "object" /\ Truthy(data.id)

Lookup(username) ==
    [ fn |-> "getPlayerUUID", username |-> username, pc |-> "fetchAshcon",
      attempts |-> 0, fetched |-> << >>, result |-> Undefined ]

\* "if (username) uuid = await getPlayerUUID(username)"
CallGetPlayerUUID(username) ==
    /\ call = NoCall
    /\ call' = IF Truthy(username)
               THEN Lookup(username)
               ELSE [Lookup(username) EXCEPT !.pc = "skipped"]
    /\ UNCHANGED <<connectionId, activeConnections, domainRouting, sess, response, listening, routingFile, netty>>

ProviderCall(provider, data) == [provider |-> provider, data |-> data]

\* fetchData(ASHCON_API_URL) returns: lines 40-42.
AshconResponds(data) ==
    /\ call.fn = "getPlayerUUID" /\ call.pc = "fetchAshcon"
    /\ call' = IF HasId(data)
               THEN [call EXCEPT !.fetched = Append(@, ProviderCall("ashcon", data)),
                                 !.pc = "returned", !.result = data.id]
               ELSE [call EXCEPT !.fetched = Append(@, ProviderCall("ashcon", data)),
                                 !.pc = "delay", !.attempts = @ + 1]
    /\ UNCHANGED <<connectionId, activeConnections, domainRouting, sess, response, listening, routingFile, netty>>

\* RetryDelayElapses, were the fallback taken after the first failure.
RetryDelayElapsesOnce ==
    /\ call.fn = "getPlayerUUID" /\ call.pc = "delay"
    /\ call' = [call EXCEPT !.pc = "fetchMojang"]
    /\ UNCHANGED <<connectionId, activeConnections, domainRouting, sess, response, listening, routingFile, netty>>

\* The timer of RETRY_DELAY fires (line 43) and the loop test is made.
RetryDelayElapses ==
    /\ call.fn = "getPlayerUUID" /\ call.pc = "delay"
    /\ call' = [call EXCEPT !.pc = IF call.attempts < MAX_ATTEMPTS
                                   THEN "fetchAshcon" ELSE "fetchMojang"]
    /\ UNCHANGED <<connectionId, activeConnections, domainRouting, sess, response, listening, routingFile, netty>>

\* fetchData(MOJANG_API_URL) returns: lines 46-49.
MojangResponds(data) ==
    /\ call.fn = "getPlayerUUID" /\ call.pc = "fetchMojang"
    /\ call' = IF HasId(data)
               THEN [call EXCEPT !.fetched = Append(@, ProviderCall("mojang", data)),
                                 !.pc = "returned", !.result = data.id]
               ELSE [call EXCEPT !.fetched = Append(@, ProviderCall("mojang", data)),
                                 !.pc = "thrown"]
    /\ UNCHANGED <<connectionId, activeConnections, domainRouting, sess, response, listening, routingFile, netty>>

\* alice, bob, the empty string and no username
LookupUsernames == {Alice, Bob, << >>, Undefined}

NextResolver ==
    \/ call = NoCall /\ \E username \in LookupUsernames : CallGetPlayerUUID(username)
    \/ call.fn = "getPlayerUUID" /\
            \E data \in ProviderResponses(call.username) : AshconResponds(data)
    \/ RetryDelayElapses
    \/ call.fn = "getPlayerUUID" /\
            \E data \in ProviderResponses(call.username) : MojangResponds(data)

SpecResolver == Init /\ [][NextResolver]_vars

\* C28: the resolver calls the primary provider first and at most 3 times,
\* each call after the first following a failed or malformed answer and a
\* delay; it calls the secondary provider only after three primary calls
\* have failed, and once; it makes at most 4 provider calls and ends with a
\* UUID or with the unresolved outcome; with no username it makes no call.
ResolverCallsBounded ==
    call.fn = "getPlayerUUID" =>
        LET log == call.fetched
        IN  /\ Len(log) <= 4
            /\ \A i \in 1..Len(log) :
                    /\ log[i].provider = (IF i <= 3 THEN "ashcon" ELSE "mojang")
                    /\ i < Len(log) =>
                          ~(log[i].data.data = "object" /\ Truthy(log[i].data.id))
            /\ call.pc \in {"fetchAshcon", "delay"} => Len(log) <= 3
            /\ call.pc = "fetchAshcon" => Len(log) < 3
            /\ call.pc = "fetchMojang" => Len(log) = 3
            /\ call.pc = "returned" =>
                    /\ Len(log) >= 1
                    /\ Truthy(call.result)
                    /\ call.result = log[Len(log)].data.id
            /\ call.pc = "thrown" =>
                    /\ Len(log) = 4
                    /\ ~(log[4].data.data = "object" /\ Truthy(log[4].data.id))
            /\ (call.pc = "skipped") <=> ~Truthy(call.username)
            /\ call.pc = "skipped" => log = << >>

\* C28 witness: three primary calls failed and the secondary provider
\* returned the UUID.
ResolverCallsBoundedWitness ==
    /\ call.fn = "getPlayerUUID" /\ call.pc = "returned"
    /\ Len(call.fetched) = 4
    /\ call.fetched[4].provider = "mojang"
    /\ call.result = ProviderUuid(Alice)

(***************************************************************************)
(* SpecTimer: one call of waitForData (tcpProxy.js 269-305) with time in   *)
(* milliseconds.  The variable call holds the pending timer, the time      *)
(* since the last chunk (or since the call), what was collected and, for   *)
(* every chunk of the client, after what gap it arrived and whether the    *)
(* 'data' listener was still attached.                                     *)
(***************************************************************************)
\* "setTimeout(..., 5)" and "setTimeout(..., 250)"
InitialTimeout == 5
CoalesceTimeout == 250

\* Time is followed until this long after the last chunk.
MaxQuiet == 300

\* The steps of time
Delays == {5, 45, 200}

\* The injected header in one segment, the handshake and login in the next
ScriptHeaderFirst ==
    << InjectedHeader(Ip1), Handshake(DomainA, 2) \o LoginStart(Alice) >>

\* new Promise(...): both listeners attached, the initial timer set.
CallWaitForData(script) ==
    /\ call = NoCall
    /\ call' = [ fn |-> "waitForData", pc |-> "pending", timer |-> InitialTimeout,
                 gap |-> 0, script |-> script, sent |-> 0,
                 collectedData |-> << >>, arrivals |-> << >>, quiet |-> 0 ]
    /\ UNCHANGED <<connectionId, activeConnections, domainRouting, sess, response, listening, routingFile, netty>>

\* d milliseconds pass with no event; a pending timer is not passed over.
TimePasses(d) ==
    /\ call.fn = "waitForData"
    /\ call.pc = "pending" \/ call.sent < Len(call.script)
    /\ call.pc = "pending" => d <= call.timer
    /\ call.gap + d <= MaxQuiet
    /\ call' = [call EXCEPT !.gap = @ + d,
                            !.timer = IF call.pc = "pending" THEN @ - d ELSE @]
    /\ UNCHANGED <<connectionId, activeConnections, domainRouting, sess, response, listening, routingFile, netty>>

Arrival(gap, collected) == [gap |-> gap, collected |-> collected]

\* The next chunk of the client arrives.  While the promise is pending
\* onData appends it and sets the timer anew; afterwards the listener is
\* removed.
ChunkArrives ==
    /\ call.fn = "waitForData"
    /\ call.sent < Len(call.script)
    /\ call' = IF call.pc = "pending"
               THEN [onData(call, call.script[call.sent + 1]) EXCEPT
                        !.sent = @ + 1, !.timer = CoalesceTimeout, !.gap = 0,
                        !.arrivals = Append(@, Arrival(call.gap, TRUE))]
               ELSE [call EXCEPT
                        !.sent = @ + 1, !.gap = 0,
                        !.arrivals = Append(@, Arrival(call.gap, FALSE))]
    /\ UNCHANGED <<connectionId, activeConnections, domainRouting, sess, response, listening, routingFile, netty>>

\* The pending timer fires: cleanup(), resolve(collectedData).
TimeoutFires ==
    /\ call.fn = "waitForData"
    /\ call.pc = "pending" /\ call.timer = 0
    /\ call' = [call EXCEPT !.pc = "resolved", !.quiet = call.gap]
    /\ UNCHANGED <<connectionId, activeConnections, domainRouting, sess, response, listening, routingFile, netty>>

NextTimer ==
    \/ CallWaitForData(ScriptHeaderFirst)
    \/ \E d \in Delays : TimePasses(d)
    \/ ChunkArrives
    \/ TimeoutFires

SpecTimer == Init /\ [][NextTimer]_vars

\* The chunks of the script that the listener received, concatenated.
RECURSIVE Collected(_, _, _)
Collected(script, arrivals, n) ==
    IF n = 0 THEN << >>
    ELSE Collected(script, arrivals, n - 1)
            \o (IF arrivals[n].collected THEN script[n] ELSE << >>)

\* C30: waitForData returns the concatenation, in arrival order, of the
\* chunks that arrived before it resolved; it resolves only once 250 ms
\* have passed with no new chunk; a chunk that arrives less than 250 ms
\* after the previous one is always included; so a header followed 200 ms
\* later by the handshake is read whole and parses.
CoalescesUntilQuiet ==
    call.fn = "waitForData" =>
        /\ call.collectedData = Collected(call.script, call.arrivals, Len(call.arrivals))
        /\ call.pc = "resolved" => call.quiet >= 250
        /\ \A i \in 2..Len(call.arrivals) :
                call.arrivals[i].gap < 250 => call.arrivals[i].collected
        /\ (/\ call.pc = "resolved"
            /\ Len(call.arrivals) = 2 /\ call.arrivals[2].gap = 200) =>
                /\ call.collectedData = call.script[1] \o call.script[2]
                /\ extractInjectedIP(call.collectedData).ok
                /\ handleInitialData(extractInjectedIP(call.collectedData).dataWithoutInjectedIp).ok

(***************************************************************************)
(* SpecStore: the routing table and its file, src/routes/domainRouting.js, *)
(* under upserts and removes whose write of the file succeeds or throws.   *)
(***************************************************************************)
\* "a.co", "b.co" and "valueOf"
StoreDomains == {DomainA, DomainB, DomainValueOf}
StoreTargets == {MainTarget, Target("10.0.0.2", PortNumber(25566))}

NextStore ==
    \/ \E domain \in StoreDomains, target \in StoreTargets : PostRouting(domain, target)
    \/ \E domain \in StoreDomains, target \in StoreTargets :
            PostRoutingSaveFails(domain, target)
    \/ \E domain \in StoreDomains : DeleteRouting(domain)
    \/ \E domain \in StoreDomains : DeleteRoutingSaveFails(domain)

SpecStore == Init /\ [][NextStore]_vars

\* C31: a routing operation that reports success has written the whole
\* table: afterwards the file equals the table; and an operation that
\* reports failure leaves the table as it was.
SavedBeforeSuccess ==
    [][/\ response'.status \in {200, 201} => routingFile' = domainRouting'
       /\ response'.status \notin {200, 201} => domainRouting' = domainRouting]_vars

\* C38: the table answers only for the domains it holds: get of a domain
\* that has no entry returns null, and remove of such a domain answers 404
\* and writes nothing.
AnswersOnlyForUpserted ==
    [][\A domain \in StoreDomains :
          domain \notin DOMAIN domainRouting =>
              /\ get(domain) = NoTarget
              /\ DeleteRouting(domain) =>
                    response'.status = 404 /\ routingFile' = routingFile]_vars

(***************************************************************************)
(* SpecRegistry: sessions that dial their upstream, with deleteConnection  *)
(* called for the ids the listener has given out and for one it has not.   *)
(***************************************************************************)
MaxRegistrySessions == 2

\* "delete activeConnections[connectionId]"
WithoutConnection(id) ==
    [i \in DOMAIN activeConnections \ {id} |-> activeConnections[i]]

\* deleteConnection, were it to end the socket and keep the record.
DeleteConnectionKeepsRecord(id) ==
    /\ IF id \in DOMAIN activeConnections
       THEN /\ sess' = EndClientSockets({activeConnections[id].clientSocket})
            /\ call' = [fn |-> "deleteConnection", connectionId |-> id, result |-> TRUE]
       ELSE /\ call' = [fn |-> "deleteConnection", connectionId |-> id, result |-> FALSE]
            /\ UNCHANGED sess
    /\ UNCHANGED <<connectionId, activeConnections, domainRouting, response, listening,
                   routingFile, netty>>

\* deleteConnection(connectionId)
DeleteConnection(id) ==
    /\ IF id \in DOMAIN activeConnections
       THEN /\ sess' = EndClientSockets({activeConnections[id].clientSocket})
            /\ activeConnections' = WithoutConnection(id)
            /\ call' = [fn |-> "deleteConnection", connectionId |-> id, result |-> TRUE]
       ELSE /\ call' = [fn |-> "deleteConnection", connectionId |-> id, result |-> FALSE]
            /\ UNCHANGED <<sess, activeConnections>>
    /\ UNCHANGED <<connectionId, domainRouting, response, listening, routingFile, netty>>

\* The ids deleteConnection is called with: those given out and the next.
RegistryIds == 0..MaxRegistrySessions

NextRegistry ==
    \/ connectionId < MaxRegistrySessions /\ Accept(ScriptAliceShort)
    \/ \E id \in Ids : ClientSends(id)
    \/ \E id \in Ids : TimerFires(id)
    \/ \E id \in Ids : UuidResolved(id)
    \/ \E id \in Ids : FirewallResponds(id, << >>)
    \/ \E id \in Ids : ConnectSucceeds(id)
    \/ \E id \in Ids : ClientFin(id)
    \/ \E id \in RegistryIds : DeleteConnection(id)

SpecRegistry == Init /\ [][NextRegistry]_vars

\* The records the three queries can return, over every argument.
Queried ==
    UNION { findConnectionsByUsername(rec.username, rec.remotePort.n)
            \cup findConnectionsByIp(rec.ip, rec.remotePort.n)
            \cup findConnectionsByUuid(rec.uuid, rec.remotePort.n)
              : rec \in {activeConnections[i] : i \in DOMAIN activeConnections} }

MaxLoginSessions == 1

\* A Login Start whose name has length 0
ScriptEmptyName ==
    << InjectedHeader(Ip1) \o Handshake(DomainA, 2) \o LoginStart(<< >>), Play1 >>
\* Two frames with the marker after the login
ScriptMarkerTwice ==
    << InjectedHeader(Ip1) \o Handshake(DomainA, 2) \o LoginStart(Alice),
       <<2>> \o Codingbear, <<2, 1>> \o Codingbear >>
LoginScripts == {ScriptEmptyName, ScriptMarkerTwice, ScriptStatus}

\* The upstream sends a frame that contains the marker.
RemoteSendsMarker(id) ==
    LET r == sess[id]
    IN  /\ r.pc = "splice"
        /\ r.remoteSocket \in {"open", "ending"}
        /\ r.remoteSent < MaxRemoteChunks
        /\ sess' = [sess EXCEPT ![id] =
                ForwardToClient([r EXCEPT !.remoteSent = @ + 1],
                                RemoteChunk(r.remoteSent + 1) \o Codingbear)]
        /\ UNCHANGED <<connectionId, activeConnections, domainRouting, response,
                       listening, call, routingFile, netty>>

NextLogin ==
    \/ \E script \in LoginScripts : connectionId < MaxLoginSessions /\ Accept(script)
    \/ \E id \in Ids : ClientSends(id)
    \/ \E id \in Ids : TimerFires(id)
    \/ \E id \in Ids : UuidResolved(id)
    \/ \E id \in Ids : UuidUnresolved(id)
    \/ \E id \in Ids : FirewallResponds(id, << >>)
    \/ \E id \in Ids : ConnectSucceeds(id)
    \/ \E id \in Ids : sess[id].remoteSent < MaxRemoteChunks /\ RemoteSends(id)
    \/ \E id \in Ids : RemoteSendsMarker(id)

SpecLogin == Init /\ [][NextLogin]_vars

\* The login packet of a session parsed: getModernMinecraftUsername
\* returned a string, of whatever length.
LoginParsed(r) == r.username # Null /\ r.username # Undefined

\* The session has dialled its upstream.
Dialled(r) == r.remoteSocket # "null"

\* C37: a session whose Login Start parsed has a resolved UUID whenever it
\* has dialled its upstream.
ParsedLoginHasUuidAtDial ==
    \A id \in Ids :
        LoginParsed(sess[id]) /\ Dialled(sess[id]) => Truthy(sess[id].uuid)

\* C33: every record of the registry has no uuid exactly when it has no
\* username, its uuid holds no dash, and its session has a connected
\* upstream behind it.
RecordInvariant ==
    \A id \in DOMAIN activeConnections :
        LET rec == activeConnections[id]
        IN  /\ (rec.uuid \in {Null, Undefined}) <=> (rec.username \in {Null, Undefined})
            /\ rec.uuid \notin {Null, Undefined} => ~Includes(rec.uuid, <<45>>)
            /\ sess[id].remoteSocket \notin {"null", "connecting"}

\* C34: a session emits at most one hex dump while splicing.
OneHexDump ==
    \A id \in Ids : Len(sess[id].hexDumps) <= 1

(***************************************************************************)
(* The Netty proxy, src/src/main/java/dev/mcloudtw: one client channel     *)
(* (inbound, AUTO_READ off) and its upstream channel (outbound).           *)
(***************************************************************************)
\* Messages an upstream sends on one connection.
MaxUpstreamMessages == 2

Thrown(kind) == [kind |-> kind]
ReadOk(value, readerIndex) == [kind |-> "ok", value |-> value, readerIndex |-> readerIndex]

\* HandshakeHandler.readVarInt: the byte is read, or-ed in and counted
\* before the count is tested, so the sixth byte is what throws.
RECURSIVE JavaReadVarIntLoop(_, _, _, _)
JavaReadVarIntLoop(buf, readerIndex, result, numRead) ==
    IF ~InRange(buf, readerIndex) THEN Thrown("IndexOutOfBounds")
    ELSE IF numRead + 1 > 5 THEN Thrown("Exception")
    ELSE IF At(buf, readerIndex) < 128
    THEN ReadOk(OrShifted(result, At(buf, readerIndex), numRead), readerIndex + 1)
    ELSE JavaReadVarIntLoop(buf, readerIndex + 1,
                            OrShifted(result, At(buf, readerIndex), numRead), numRead + 1)

JavaReadVarInt(buf, readerIndex) == JavaReadVarIntLoop(buf, readerIndex, 0, 0)

\* HandshakeHandler.readString once the length is read; "new byte[length]"
\* throws NegativeArraySizeException for a negative length.
JavaStringOfLength(buf, length) ==
    IF length.kind # "ok" THEN length
    ELSE IF Len(buf) - length.readerIndex < length.value THEN Thrown("IndexOutOfBounds")
    ELSE IF length.value < 0 THEN Thrown("Exception")
    ELSE ReadOk(Utf8(SubSeq(buf, length.readerIndex + 1, length.readerIndex + length.value)),
                length.readerIndex + length.value)

JavaReadString(buf, readerIndex) == JavaStringOfLength(buf, JavaReadVarInt(buf, readerIndex))

\* processHandshake, from the last field back to the first.
AfterNextState(serverAddress, nextState) ==
    IF nextState.kind # "ok" THEN nextState
    ELSE [kind |-> "handshake", serverAddress |-> serverAddress.value]

\* readUnsignedShort, then nextState
AfterServerAddress(buf, serverAddress) ==
    IF serverAddress.kind # "ok" THEN serverAddress
    ELSE IF Len(buf) - serverAddress.readerIndex < 2 THEN Thrown("IndexOutOfBounds")
    ELSE AfterNextState(serverAddress, JavaReadVarInt(buf, serverAddress.readerIndex + 2))

AfterProtocolVersion(buf, protocolVersion) ==
    IF protocolVersion.kind # "ok" THEN protocolVersion
    ELSE AfterServerAddress(buf, JavaReadString(buf, protocolVersion.readerIndex))

AfterPacketId(buf, packetId) ==
    IF packetId.kind # "ok" THEN packetId
    ELSE IF packetId.value # 0 THEN Thrown("notHandshake")
    ELSE AfterProtocolVersion(buf, JavaReadVarInt(buf, packetId.readerIndex))

\* "return null" is the kind "incomplete".
AfterPacketLength(buf, packetLength) ==
    IF packetLength.kind # "ok" THEN packetLength
    ELSE IF Len(buf) - packetLength.readerIndex < packetLength.value
    THEN Thrown("incomplete")
    ELSE AfterPacketId(buf, JavaReadVarInt(buf, packetLength.readerIndex))

\* HandshakeHandler.processHandshake on the buffer of one read
processHandshake(buf) == AfterPacketLength(buf, JavaReadVarInt(buf, 0))

\* The routing map of the Netty proxy holds "a.co".
NettyRoutes == {DomainA}

\* ServerRoutingConfig.getServerInfo: routingMap.get(domain.toLowerCase())
getServerInfo(domain) ==
    IF Lower(domain) \in NettyRoutes THEN "server" ELSE "null"

\* The inbound channel closes: channelInactive of the frontend handler
\* closes an active outbound channel.
InboundClosed(n) ==
    [n EXCEPT !.inbound = "closed",
              !.readRequested = FALSE,
              !.outbound = IF @ = "active" THEN "closed" ELSE @]

\* ChannelUtils.closeOnFlush(inboundChannel)
closeOnFlush(n) == IF n.inbound = "active" THEN InboundClosed(n) ELSE n

\* ProxyFrontendHandler.forwardToOutbound: the message is dropped when the
\* outbound is not active, else written, and the write listener reads on.
forwardToOutbound(n, msg) ==
    IF n.outbound # "active" THEN n
    ELSE [n EXCEPT !.toOutbound = Append(@, msg), !.readRequested = TRUE]

\* ProxyFrontendHandler.channelRead after processHandshake
Processed(n, msg, result) ==
    CASE result.kind \in {"incomplete", "IndexOutOfBounds"} -> n
      [] result.kind \in {"notHandshake", "Exception"} -> closeOnFlush(n)
      [] OTHER ->
            IF getServerInfo(result.serverAddress) = "null"
            THEN closeOnFlush([n EXCEPT !.handshakeProcessed = TRUE])
            ELSE [n EXCEPT !.handshakeProcessed = TRUE,
                           !.outbound = "connecting",
                           !.initMsg = msg]

\* ProxyFrontendHandler.channelRead
channelRead(n, msg) ==
    IF n.handshakeProcessed
    THEN forwardToOutbound(n, msg)
    ELSE Processed(n, msg, processHandshake(msg))

\* The bytes of the segments that arrived since the last read, as the one
\* buffer the read delivers.
Received(n) == Joined(SubSeq(n.script, n.read + 1, n.arrived), n.arrived - n.read)

NettyChanges(n) ==
    /\ netty' = n
    /\ UNCHANGED <<connectionId, activeConnections, domainRouting, sess, response,
                   listening, call, routingFile>>

\* A client connects: ProxyFrontendHandler.channelActive requests a read.
NettyAccept(script) ==
    /\ netty.inbound = "none"
    /\ NettyChanges([netty EXCEPT !.inbound = "active", !.readRequested = TRUE,
                                  !.script = script])

\* A segment of the client reaches the socket of the proxy.
ClientSegmentArrives ==
    /\ netty.inbound = "active"
    /\ netty.arrived < Len(netty.script)
    /\ NettyChanges([netty EXCEPT !.arrived = @ + 1])

\* The requested read finds bytes and calls channelRead with them.
FrontendChannelRead ==
    /\ netty.inbound = "active"
    /\ netty.readRequested
    /\ netty.read < netty.arrived
    /\ NettyChanges(channelRead([netty EXCEPT !.readRequested = FALSE,
                                             !.read = netty.arrived],
                                Received(netty)))

\* The connect future succeeds: the first message is forwarded and a read
\* is requested on the inbound channel.
NettyConnectSucceeds ==
    /\ netty.outbound = "connecting"
    /\ NettyChanges(
          IF netty.inbound = "active"
          THEN [forwardToOutbound([netty EXCEPT !.outbound = "active"], netty.initMsg)
                    EXCEPT !.readRequested = TRUE]
          ELSE forwardToOutbound([netty EXCEPT !.outbound = "active"], netty.initMsg))

\* The connect future fails.
NettyConnectFails ==
    /\ netty.outbound = "connecting"
    /\ NettyChanges(closeOnFlush([netty EXCEPT !.outbound = "closed"]))

\* The client closes its connection.
NettyClientCloses ==
    /\ netty.inbound = "active"
    /\ NettyChanges(InboundClosed(netty))

\* ProxyBackendHandler.channelRead: the message is released when the
\* inbound channel is not active, else its write is handed to the channel.
BackendChannelRead ==
    /\ netty.outbound = "active"
    /\ netty.upstreamSent < MaxUpstreamMessages
    /\ NettyChanges(
          IF netty.inbound # "active"
          THEN [netty EXCEPT !.upstreamSent = @ + 1]
          ELSE [netty EXCEPT !.upstreamSent = @ + 1,
                             !.pendingWrites = Append(@, RemoteChunk(netty.upstreamSent + 1))])

\* The listener of writeAndFlush in ProxyBackendHandler.channelRead: a
\* write on a closed channel fails and the listener returns; after a
\* successful write it closes the channel of the future, the inbound one.
WriteCompleted(n) ==
    IF n.inbound # "active"
    THEN [n EXCEPT !.pendingWrites = Tail(@)]
    ELSE InboundClosed([n EXCEPT !.pendingWrites = Tail(@),
                                 !.toClient = Append(@, Head(n.pendingWrites))])

BackendWriteCompletes ==
    /\ netty.pendingWrites # << >>
    /\ NettyChanges(WriteCompleted(netty))

\* The upstream closes: ProxyBackendHandler.channelInactive closes the
\* inbound channel once its queued writes are flushed.
UpstreamCloses ==
    /\ netty.outbound = "active"
    /\ netty.pendingWrites = << >>
    /\ NettyChanges(closeOnFlush([netty EXCEPT !.outbound = "closed"]))

\* Clients of the Netty proxy: a handshake and login in one segment, then
\* a play packet; the handshake cut after four bytes; the first byte of a
\* two-byte length alone; a ping; an unrouted domain; "A.co"; a VarInt of
\* six bytes.
NettyScripts ==
    { << Handshake(DomainA, 2) \o LoginStart(Alice), Play1 >>,
      << SubSeq(Handshake(DomainA, 2), 1, 4),
         SubSeq(Handshake(DomainA, 2), 5, Len(Handshake(DomainA, 2))) \o LoginStart(Alice) >>,
      << <<138>>, <<1, 0>> >>,
      << Ping >>,
      << Handshake(DomainB, 2) >>,
      << Handshake(DomainUpper, 1) \o StatusRequest >>,
      << <<255, 255, 255, 255, 255, 255>> >> }

NextNetty ==
    \/ \E script \in NettyScripts : NettyAccept(script)
    \/ ClientSegmentArrives
    \/ FrontendChannelRead
    \/ NettyConnectSucceeds
    \/ NettyConnectFails
    \/ NettyClientCloses
    \/ BackendChannelRead
    \/ BackendWriteCompletes
    \/ UpstreamCloses

SpecNetty == Init /\ [][NextNetty]_vars

\* C39: while the handshake of an open client channel is not processed a
\* read is requested on the channel, so the bytes that follow are read.
ReadRequestedUntilHandshake ==
    netty.inbound = "active" /\ ~netty.handshakeProcessed => netty.readRequested

\* C40: a write of an upstream message to the client that succeeds leaves
\* the client channel open.
SuccessfulWriteKeepsClientOpen ==
    [][BackendWriteCompletes /\ netty.inbound = "active" =>
          netty'.inbound = "active"]_vars

=============================================================================
